---- MODULE Spec2Model ----
(***************************************************************************)
(* A model of fire-notes' in-memory document buffer, src/text_buffer.rs:   *)
(* TextBuffer { rope, cursor, selection_anchor, undo_stack, redo_stack }   *)
(* and every public operation on it.  The rope (the ropey crate) is a      *)
(* sequence of one-character strings; its char and line indices are        *)
(* 0-based as in the source, so rope[i + 1] is the character at offset i.  *)
(* A ropey call with an index outside the rope panics: the operation then  *)
(* ends with panicked = TRUE, and nothing more happens to the buffer.      *)
(***************************************************************************)
EXTENDS Integers, Sequences, FiniteSets, TLC

\* ------------------------------------------------------------------ bounds
\* Inserts stop when the text would grow beyond MaxLen characters.
MaxLen == 2
\* Edits and line moves stop once the actions held by the two stacks and the
\* line moves that changed the buffer number MaxActions together.
MaxActions == 2
\* A line, column or character index beyond the end of every buffer reached.
FarIndex == 9

\* The characters one chunk (leaf) of the rope holds at most; ropey's is
\* about a thousand bytes.
MaxChunkLen == 2

\* The longest text the word movements are checked on.
MaxWordLen == 4

\* The longest text the line operations are checked on.
MaxLineTextLen == 4

NL == "\n"
\* A word character and the line break (which is whitespace too).
Alphabet == {"a", NL}

\* Texts from_str is called with.
InitialTexts ==
    { <<>>, <<"a", NL>>, <<NL, "a">>, <<"a", NL, "a">> }

\* Texts insert_str is called with (paste, multi-character input).
InsertTexts == { <<"a", NL>> }

VARIABLES
    rope,               \* TextBuffer.rope
    cursor,             \* TextBuffer.cursor
    selection_anchor,   \* TextBuffer.selection_anchor: None or Some(n)
    undo_stack,         \* TextBuffer.undo_stack
    redo_stack,         \* TextBuffer.redo_stack
    panicked,           \* an operation panicked: the program has aborted
    s0,                 \* the text from_str was called with
    line_moves,         \* how many line moves have changed the buffer
    list,               \* a ListWidget
    text_input,         \* a TextInput
    scroll_state,       \* App.scroll_state, a ScrollState
    now,                \* Instant::now(), in milliseconds
    last_input,         \* when the last scroll input that counted came, if
                        \* one has come since the ScrollState was made or reset
    tabs,               \* App.tabs
    active_tab,         \* App.active_tab
    renaming_tab,       \* state.renaming_tab: None or Some(index)
    rename_input,       \* state.rename_input: None or Some(a TextInput)
    focus,              \* App.focus
    visible_lines,      \* App::visible_lines(): the lines the window shows
    COUNTER,            \* the static COUNTER of Tab::new_untitled
    disk,               \* the notes of the data directory that can be read
    returned            \* the last call: its name, its input and its answer

buffer_vars ==
    <<rope, cursor, selection_anchor, undo_stack, redo_stack, panicked,
      s0, line_moves>>

scroll_vars == <<scroll_state, now, last_input>>

app_vars ==
    <<tabs, active_tab, renaming_tab, rename_input, focus, visible_lines,
      COUNTER, disk>>

vars ==
    <<buffer_vars, list, text_input, scroll_vars, app_vars, returned>>

\* Option<usize>
None == <<>>
Some(n) == <<n>>

\* The parts of the program a specification leaves out are absent, and stay
\* absent.
NoList == list = None

NoTextInput == text_input = None

NoScrollState == scroll_state = None /\ now = None /\ last_input = None

NoApp ==
    /\ tabs = None
    /\ active_tab = None
    /\ renaming_tab = None
    /\ rename_input = None
    /\ focus = None
    /\ visible_lines = None
    /\ COUNTER = None
    /\ disk = None

\* A TextBuffer on its own, as its unit tests make it.
BufferOnly ==
    /\ NoList /\ NoTextInput /\ NoScrollState /\ NoApp
    /\ returned = None

outside_buffer ==
    <<list, text_input, scroll_vars, app_vars, returned>>

\* The buffer as one value, so that operations compose as functions.
Buf ==
    [rope |-> rope, cursor |-> cursor, selection_anchor |-> selection_anchor,
     undo_stack |-> undo_stack, redo_stack |-> redo_stack,
     panicked |-> panicked]

Panic(b) == [b EXCEPT !.panicked = TRUE]

\* ------------------------------------------------------------ ropey::Rope
len_chars(r) == Len(r)

\* Line breaks among the first idx characters.
NewlinesBefore(r, idx) == Cardinality({i \in 1..idx : r[i] = NL})

len_lines(r) == NewlinesBefore(r, Len(r)) + 1

\* Rope::char_to_line; panics when idx > len_chars.
char_to_line(r, idx) == NewlinesBefore(r, idx)

\* Rope::line_to_char; panics when line > len_lines, and line = len_lines is
\* the one-past-the-end char index.
line_to_char(r, line) ==
    IF line = 0 THEN 0
    ELSE IF line >= len_lines(r) THEN Len(r)
    ELSE CHOOSE i \in 1..Len(r) : r[i] = NL /\ NewlinesBefore(r, i) = line

\* Rope::slice(a..b); panics unless a <= b <= len_chars.
RopeSlice(r, a, b) == SubSeq(r, a + 1, b)

RangeOk(r, a, b) == a <= b /\ b <= Len(r)

\* Rope::line(idx), the line with its line break; panics when idx >= len_lines.
rope_line(r, idx) == RopeSlice(r, line_to_char(r, idx), line_to_char(r, idx + 1))

\* Rope::line(idx).len_chars()
line_len(r, idx) == Len(rope_line(r, idx))

\* Rope::insert / insert_char; panics when idx > len_chars.
RopeInsert(r, idx, text) ==
    SubSeq(r, 1, idx) \o text \o SubSeq(r, idx + 1, Len(r))

\* Rope::remove(a..b); panics unless a <= b <= len_chars.
RopeRemove(r, a, b) == SubSeq(r, 1, a) \o SubSeq(r, b + 1, Len(r))

\* usize::saturating_sub
saturating_sub(a, b) == IF a >= b THEN a - b ELSE 0

Min(a, b) == IF a <= b THEN a ELSE b

\* ---------------------------------------------------------------- Action
ActInsert(start, text) == [kind |-> "Insert", start |-> start, text |-> text]
ActDelete(start, text) == [kind |-> "Delete", start |-> start, text |-> text]

\* ------------------------------------------------------------ TextBuffer
from_str(text) ==
    [rope |-> text, cursor |-> 0, selection_anchor |-> None,
     undo_stack |-> <<>>, redo_stack |-> <<>>, panicked |-> FALSE]

\* content(): `rope.slice(..).as_str().unwrap_or("")`.  RopeSlice::as_str is
\* Some only when the text lies in one chunk of the rope, and a chunk holds at
\* most MaxChunkLen characters; a text that fits one chunk is taken to lie in
\* one.
content(b) ==
    IF len_chars(b.rope) <= MaxChunkLen THEN b.rope ELSE <<>>

has_selection(b) ==
    b.selection_anchor /= None /\ b.selection_anchor /= Some(b.cursor)

\* None, or Some(<<start, end>>) with start < end.
selection_range(b) ==
    IF b.selection_anchor = None THEN None
    ELSE LET anchor == b.selection_anchor[1] IN
         IF anchor = b.cursor THEN None
         ELSE IF anchor < b.cursor THEN Some(<<anchor, b.cursor>>)
         ELSE Some(<<b.cursor, anchor>>)

\* start_selection without its `if self.selection_anchor.is_none()`.
start_selection_resets_anchor(b) ==
    [b EXCEPT !.selection_anchor = Some(b.cursor)]

start_selection(b) ==
    IF b.selection_anchor = None
    THEN [b EXCEPT !.selection_anchor = Some(b.cursor)]
    ELSE b

clear_selection(b) == [b EXCEPT !.selection_anchor = None]

record_action(b, action) ==
    [b EXCEPT !.undo_stack = Append(b.undo_stack, action),
              !.redo_stack = <<>>]

delete_selection(b) ==
    LET range == selection_range(b) IN
    IF range = None THEN b
    ELSE LET start == range[1][1]
             end == range[1][2] IN
         IF ~RangeOk(b.rope, start, end) THEN Panic(b)
         ELSE LET text == RopeSlice(b.rope, start, end)
                  b1 == record_action(b, ActDelete(start, text)) IN
              [b1 EXCEPT !.rope = RopeRemove(b.rope, start, end),
                         !.cursor = start,
                         !.selection_anchor = None]

insert(b, ch) ==
    LET b1 == IF has_selection(b) THEN delete_selection(b) ELSE b IN
    IF b1.panicked THEN b1
    ELSE LET b2 == record_action(b1, ActInsert(b1.cursor, <<ch>>)) IN
         IF b2.cursor > Len(b2.rope) THEN Panic(b2)
         ELSE [b2 EXCEPT !.rope = RopeInsert(b2.rope, b2.cursor, <<ch>>),
                         !.cursor = b2.cursor + 1]

insert_str(b, text) ==
    LET b1 == IF has_selection(b) THEN delete_selection(b) ELSE b IN
    IF b1.panicked THEN b1
    ELSE LET b2 == record_action(b1, ActInsert(b1.cursor, text)) IN
         IF b2.cursor > Len(b2.rope) THEN Panic(b2)
         ELSE [b2 EXCEPT !.rope = RopeInsert(b2.rope, b2.cursor, text),
                         !.cursor = b2.cursor + Len(text)]

\* undo_apply with the Insert arm's `self.cursor = start` left out.
undo_apply_keeps_cursor(b, action) ==
    LET start == action.start IN
    CASE action.kind = "Insert" ->
           LET char_count == Len(action.text) IN
           IF ~RangeOk(b.rope, start, start + char_count) THEN Panic(b)
           ELSE [b EXCEPT !.rope = RopeRemove(b.rope, start, start + char_count)]
      [] action.kind = "Delete" ->
           IF start > Len(b.rope) THEN Panic(b)
           ELSE [b EXCEPT !.rope = RopeInsert(b.rope, start, action.text),
                          !.cursor = start + Len(action.text)]
      [] action.kind = "Replace" ->
           LET new_len == Len(action.new_text) IN
           IF ~RangeOk(b.rope, start, start + new_len) THEN Panic(b)
           ELSE [b EXCEPT !.rope = RopeInsert(RopeRemove(b.rope, start, start + new_len),
                                              start, action.old_text),
                          !.cursor = start + Len(action.old_text)]

\* The match of undo(): the rope and cursor after the inverse of an action is
\* applied, Panic when ropey is handed a range or index outside the rope.
undo_apply(b, action) ==
    LET start == action.start IN
    CASE action.kind = "Insert" ->
           LET char_count == Len(action.text) IN
           IF ~RangeOk(b.rope, start, start + char_count) THEN Panic(b)
           ELSE [b EXCEPT !.rope = RopeRemove(b.rope, start, start + char_count),
                          !.cursor = start]
      [] action.kind = "Delete" ->
           IF start > Len(b.rope) THEN Panic(b)
           ELSE [b EXCEPT !.rope = RopeInsert(b.rope, start, action.text),
                          !.cursor = start + Len(action.text)]
      [] action.kind = "Replace" ->
           LET new_len == Len(action.new_text) IN
           IF ~RangeOk(b.rope, start, start + new_len) THEN Panic(b)
           ELSE [b EXCEPT !.rope = RopeInsert(RopeRemove(b.rope, start, start + new_len),
                                              start, action.old_text),
                          !.cursor = start + Len(action.old_text)]

\* undo with `self.selection_anchor = None` moved out of the `if let`: the
\* anchor is cleared on an empty stack too.
undo_clears_anchor_on_empty(b) ==
    IF b.undo_stack = <<>> THEN clear_selection(b)
    ELSE LET action == b.undo_stack[Len(b.undo_stack)]
             b1 == [b EXCEPT !.undo_stack = SubSeq(b.undo_stack, 1, Len(b.undo_stack) - 1)]
             b2 == undo_apply(b1, action) IN
         IF b2.panicked THEN b2
         ELSE [b2 EXCEPT !.redo_stack = Append(b2.redo_stack, action),
                         !.selection_anchor = None]

undo(b) ==
    IF b.undo_stack = <<>> THEN b
    ELSE LET action == b.undo_stack[Len(b.undo_stack)]
             b1 == [b EXCEPT !.undo_stack = SubSeq(b.undo_stack, 1, Len(b.undo_stack) - 1)]
             b2 == undo_apply(b1, action) IN
         IF b2.panicked THEN b2
         ELSE [b2 EXCEPT !.redo_stack = Append(b2.redo_stack, action),
                         !.selection_anchor = None]

redo_apply(b, action) ==
    LET start == action.start IN
    CASE action.kind = "Insert" ->
           IF start > Len(b.rope) THEN Panic(b)
           ELSE [b EXCEPT !.rope = RopeInsert(b.rope, start, action.text),
                          !.cursor = start + Len(action.text)]
      [] action.kind = "Delete" ->
           LET char_count == Len(action.text) IN
           IF ~RangeOk(b.rope, start, start + char_count) THEN Panic(b)
           ELSE [b EXCEPT !.rope = RopeRemove(b.rope, start, start + char_count),
                          !.cursor = start]
      [] action.kind = "Replace" ->
           LET old_len == Len(action.old_text) IN
           IF ~RangeOk(b.rope, start, start + old_len) THEN Panic(b)
           ELSE [b EXCEPT !.rope = RopeInsert(RopeRemove(b.rope, start, start + old_len),
                                              start, action.new_text),
                          !.cursor = start + Len(action.new_text)]

\* redo with `self.undo_stack.push(action)` left out.
redo_forgets_push(b) ==
    IF b.redo_stack = <<>> THEN b
    ELSE LET action == b.redo_stack[Len(b.redo_stack)]
             b1 == [b EXCEPT !.redo_stack = SubSeq(b.redo_stack, 1, Len(b.redo_stack) - 1)]
             b2 == redo_apply(b1, action) IN
         IF b2.panicked THEN b2
         ELSE [b2 EXCEPT !.selection_anchor = None]

redo(b) ==
    IF b.redo_stack = <<>> THEN b
    ELSE LET action == b.redo_stack[Len(b.redo_stack)]
             b1 == [b EXCEPT !.redo_stack = SubSeq(b.redo_stack, 1, Len(b.redo_stack) - 1)]
             b2 == redo_apply(b1, action) IN
         IF b2.panicked THEN b2
         ELSE [b2 EXCEPT !.undo_stack = Append(b2.undo_stack, action),
                         !.selection_anchor = None]

backspace(b) ==
    IF has_selection(b) THEN delete_selection(b)
    ELSE IF b.cursor > 0
    THEN IF ~RangeOk(b.rope, b.cursor - 1, b.cursor) THEN Panic(b)
         ELSE LET char_to_delete == RopeSlice(b.rope, b.cursor - 1, b.cursor)
                  b1 == record_action(b, ActDelete(b.cursor - 1, char_to_delete)) IN
              [b1 EXCEPT !.cursor = b.cursor - 1,
                         !.rope = RopeRemove(b.rope, b.cursor - 1, b.cursor)]
    ELSE b

delete(b) ==
    IF has_selection(b) THEN delete_selection(b)
    ELSE IF b.cursor < len_chars(b.rope)
    THEN LET char_to_delete == RopeSlice(b.rope, b.cursor, b.cursor + 1)
             b1 == record_action(b, ActDelete(b.cursor, char_to_delete)) IN
         [b1 EXCEPT !.rope = RopeRemove(b.rope, b.cursor, b.cursor + 1)]
    ELSE b

\* char::is_alphanumeric or '_' -> 1, char::is_whitespace -> 2, else 3.
category_check(c) ==
    IF c \in {"a", "b", "1", "_"} THEN 1
    ELSE IF c \in {" ", NL} THEN 2
    ELSE 3

\* The loop `while pos > 0 && category_check(rope.char(pos - 1)) == cat`:
\* the offset it stops at.  rope.char(pos - 1) panics when pos > len_chars.
RECURSIVE skip_left(_, _, _)
skip_left(r, pos, cat) ==
    IF pos > 0 /\ category_check(r[pos]) = cat
    THEN skip_left(r, pos - 1, cat)
    ELSE pos

\* The loop `while pos < len && category_check(rope.char(pos)) == cat`.
RECURSIVE skip_right(_, _, _)
skip_right(r, pos, cat) ==
    IF pos < Len(r) /\ category_check(r[pos + 1]) = cat
    THEN skip_right(r, pos + 1, cat)
    ELSE pos

delete_word_left(b) ==
    IF has_selection(b) THEN delete_selection(b)
    ELSE IF b.cursor = 0 THEN b
    ELSE IF b.cursor > Len(b.rope) THEN Panic(b)
    ELSE LET r == b.rope
             spaces_start == skip_left(r, b.cursor, 2)
             space_count == b.cursor - spaces_start
             start ==
                 IF space_count > 1 THEN spaces_start
                 ELSE LET s1 == skip_left(r, b.cursor, 2) IN
                      IF s1 > 0
                      THEN skip_left(r, s1, category_check(r[s1]))
                      ELSE s1
         IN  IF start < b.cursor
             THEN LET removed_text == RopeSlice(r, start, b.cursor)
                      b1 == record_action(b, ActDelete(start, removed_text)) IN
                  [b1 EXCEPT !.rope = RopeRemove(r, start, b.cursor),
                             !.cursor = start]
             ELSE b

\* `if selecting { start_selection() } else { clear_selection() }`
begin_move(b, selecting) ==
    IF selecting THEN start_selection(b) ELSE clear_selection(b)

move_left(b, selecting) ==
    LET b1 == begin_move(b, selecting) IN
    IF b1.cursor > 0 THEN [b1 EXCEPT !.cursor = b1.cursor - 1] ELSE b1

move_right(b, selecting) ==
    LET b1 == begin_move(b, selecting) IN
    IF b1.cursor < len_chars(b1.rope)
    THEN [b1 EXCEPT !.cursor = b1.cursor + 1]
    ELSE b1

move_word_left(b, selecting) ==
    LET b1 == begin_move(b, selecting) IN
    IF b1.cursor = 0 THEN b1
    ELSE IF b1.cursor > Len(b1.rope) THEN Panic(b1)
    ELSE LET p1 == skip_left(b1.rope, b1.cursor, 2)
             pos == IF p1 > 0
                    THEN skip_left(b1.rope, p1, category_check(b1.rope[p1]))
                    ELSE p1
         IN  [b1 EXCEPT !.cursor = pos]

\* move_word_right without its first loop, the one that skips whitespace.
move_word_right_keeps_whitespace(b, selecting) ==
    LET b1 == begin_move(b, selecting)
        len == len_chars(b1.rope) IN
    IF b1.cursor >= len THEN b1
    ELSE LET p1 == b1.cursor
             pos == IF p1 < len
                    THEN skip_right(b1.rope, p1, category_check(b1.rope[p1 + 1]))
                    ELSE p1
         IN  [b1 EXCEPT !.cursor = pos]

move_word_right(b, selecting) ==
    LET b1 == begin_move(b, selecting)
        len == len_chars(b1.rope) IN
    IF b1.cursor >= len THEN b1
    ELSE LET p1 == skip_right(b1.rope, b1.cursor, 2)
             pos == IF p1 < len
                    THEN skip_right(b1.rope, p1, category_check(b1.rope[p1 + 1]))
                    ELSE p1
         IN  [b1 EXCEPT !.cursor = pos]

move_up(b, selecting) ==
    LET b1 == begin_move(b, selecting) IN
    IF b1.cursor > Len(b1.rope) THEN Panic(b1)
    ELSE LET line == char_to_line(b1.rope, b1.cursor) IN
         IF line = 0 THEN [b1 EXCEPT !.cursor = 0]
         ELSE LET line_start == line_to_char(b1.rope, line)
                  col == b1.cursor - line_start
                  prev_line_start == line_to_char(b1.rope, line - 1)
                  prev_line_len == saturating_sub(line_len(b1.rope, line - 1), 1)
              IN  [b1 EXCEPT !.cursor = prev_line_start + Min(col, prev_line_len)]

\* move_down with the line break taken off the last line's length too
\* (`next_line_len` without its `if line + 1 < total_lines - 1`).
move_down_shortens_last_line(b, selecting) ==
    LET b1 == begin_move(b, selecting) IN
    IF b1.cursor > Len(b1.rope) THEN Panic(b1)
    ELSE LET line == char_to_line(b1.rope, b1.cursor)
             total_lines == len_lines(b1.rope) IN
         IF line >= saturating_sub(total_lines, 1)
         THEN [b1 EXCEPT !.cursor = len_chars(b1.rope)]
         ELSE LET line_start == line_to_char(b1.rope, line)
                  col == b1.cursor - line_start
                  next_line_start == line_to_char(b1.rope, line + 1)
                  next_line_len == saturating_sub(line_len(b1.rope, line + 1), 1)
              IN  [b1 EXCEPT !.cursor = next_line_start + Min(col, next_line_len)]

move_down(b, selecting) ==
    LET b1 == begin_move(b, selecting) IN
    IF b1.cursor > Len(b1.rope) THEN Panic(b1)
    ELSE LET line == char_to_line(b1.rope, b1.cursor)
             total_lines == len_lines(b1.rope) IN
         IF line >= saturating_sub(total_lines, 1)
         THEN [b1 EXCEPT !.cursor = len_chars(b1.rope)]
         ELSE LET line_start == line_to_char(b1.rope, line)
                  col == b1.cursor - line_start
                  next_line_start == line_to_char(b1.rope, line + 1)
                  next_line_len ==
                      IF line + 1 < total_lines - 1
                      THEN saturating_sub(line_len(b1.rope, line + 1), 1)
                      ELSE line_len(b1.rope, line + 1)
              IN  [b1 EXCEPT !.cursor = next_line_start + Min(col, next_line_len)]

move_to_line_start(b, selecting) ==
    LET b1 == begin_move(b, selecting) IN
    IF b1.cursor > Len(b1.rope) THEN Panic(b1)
    ELSE [b1 EXCEPT !.cursor = line_to_char(b1.rope, char_to_line(b1.rope, b1.cursor))]

move_to_line_end(b, selecting) ==
    LET b1 == begin_move(b, selecting) IN
    IF b1.cursor > Len(b1.rope) THEN Panic(b1)
    ELSE LET line == char_to_line(b1.rope, b1.cursor)
             line_start == line_to_char(b1.rope, line)
             end == line_start + line_len(b1.rope, line)
         IN  [b1 EXCEPT !.cursor =
                  IF end > line_start /\ b1.rope[end] = NL THEN end - 1 ELSE end]

move_to_start(b, selecting) ==
    [begin_move(b, selecting) EXCEPT !.cursor = 0]

move_to_end(b, selecting) ==
    LET b1 == begin_move(b, selecting) IN
    [b1 EXCEPT !.cursor = len_chars(b1.rope)]

\* set_cursor_by_line_col with the line break counted into every line's
\* length (`effective_line_len = len` on every line).
set_cursor_by_line_col_counts_newline(b, line, col, selecting) ==
    LET b1 == begin_move(b, selecting)
        total_lines == len_lines(b1.rope) IN
    IF total_lines = 0 THEN [b1 EXCEPT !.cursor = 0]
    ELSE LET target_line == Min(line, saturating_sub(total_lines, 1))
             line_start == line_to_char(b1.rope, target_line)
             len == line_len(b1.rope, target_line)
             target_col == Min(col, len)
         IN  [b1 EXCEPT !.cursor = line_start + target_col]

set_cursor_by_line_col(b, line, col, selecting) ==
    LET b1 == begin_move(b, selecting)
        total_lines == len_lines(b1.rope) IN
    IF total_lines = 0 THEN [b1 EXCEPT !.cursor = 0]
    ELSE LET target_line == Min(line, saturating_sub(total_lines, 1))
             line_start == line_to_char(b1.rope, target_line)
             len == line_len(b1.rope, target_line)
             effective_line_len ==
                 IF target_line < total_lines - 1
                 THEN saturating_sub(len, 1)
                 ELSE len
             target_col == Min(col, effective_line_len)
         IN  [b1 EXCEPT !.cursor = line_start + target_col]

\* A query: what it returns, and whether rope.slice panics.
selected_text(b) ==
    LET range == selection_range(b) IN
    IF range = None THEN <<>>
    ELSE RopeSlice(b.rope, range[1][1], range[1][2])

selected_text_panics(b) ==
    LET range == selection_range(b) IN
    range /= None /\ ~RangeOk(b.rope, range[1][1], range[1][2])

select_all(b) ==
    [b EXCEPT !.selection_anchor = Some(0), !.cursor = len_chars(b.rope)]

\* select_word_at_cursor without its backward scan (`start = check_idx`).
select_word_at_cursor_scans_forward_only(b) ==
    LET len == len_chars(b.rope) IN
    IF len = 0 THEN b
    ELSE LET check_idx == IF b.cursor = len THEN len - 1 ELSE b.cursor IN
         IF check_idx >= len THEN Panic(b)
         ELSE LET target_category == category_check(b.rope[check_idx + 1])
                  start == check_idx
                  end == skip_right(b.rope, check_idx + 1, target_category)
              IN  [b EXCEPT !.selection_anchor = Some(start), !.cursor = end]

\* The backward scan `while start > 0 { if category(char(start - 1)) != target
\* { break } start -= 1 }` is skip_left, the forward scan skip_right.
select_word_at_cursor(b) ==
    LET len == len_chars(b.rope) IN
    IF len = 0 THEN b
    ELSE LET check_idx == IF b.cursor = len THEN len - 1 ELSE b.cursor IN
         IF check_idx >= len THEN Panic(b)
         ELSE LET target_category == category_check(b.rope[check_idx + 1])
                  start == skip_left(b.rope, check_idx, target_category)
                  end == skip_right(b.rope, check_idx + 1, target_category)
              IN  [b EXCEPT !.selection_anchor = Some(start), !.cursor = end]

select_line_at_cursor(b) ==
    LET len == len_chars(b.rope) IN
    IF len = 0 THEN b
    ELSE IF b.cursor > len THEN Panic(b)
    ELSE LET line_idx == char_to_line(b.rope, b.cursor)
             start == line_to_char(b.rope, line_idx)
             end == IF line_idx + 1 < len_lines(b.rope)
                    THEN line_to_char(b.rope, line_idx + 1)
                    ELSE len
         IN  [b EXCEPT !.selection_anchor = Some(start), !.cursor = end]

\* A query: <<line, col>>; rope.char_to_line panics when char_idx > len_chars.
char_to_line_col(b, char_idx) ==
    LET line == char_to_line(b.rope, char_idx) IN
    <<line, char_idx - line_to_char(b.rope, line)>>

char_to_line_col_panics(b, char_idx) == char_idx > len_chars(b.rope)

\* <<start_line, end_line>>; char_to_line panics on an offset beyond the rope.
get_line_range_to_move(b) ==
    LET range == selection_range(b) IN
    IF range /= None
    THEN LET start == range[1][1]
             end == range[1][2]
             start_line == char_to_line(b.rope, start)
             end_line == char_to_line(b.rope, end)
         IN  IF end > 0 /\ end = line_to_char(b.rope, end_line)
             THEN <<start_line, saturating_sub(end_line, 1)>>
             ELSE <<start_line, end_line>>
    ELSE LET line == char_to_line(b.rope, b.cursor) IN <<line, line>>

get_line_range_to_move_panics(b) ==
    LET range == selection_range(b) IN
    IF range /= None THEN range[1][2] > len_chars(b.rope)
    ELSE b.cursor > len_chars(b.rope)

\* `if len_chars > 0 && char(len_chars - 1) != '\n' { insert_char(len_chars, '\n') }`
ensure_trailing_newline(r) ==
    IF len_chars(r) > 0 /\ r[len_chars(r)] /= NL THEN Append(r, NL) ELSE r

move_lines_up(b) ==
    IF get_line_range_to_move_panics(b) THEN Panic(b)
    ELSE LET first == get_line_range_to_move(b) IN
    IF first[1] = 0 THEN b
    ELSE LET swap_target_line == first[1] - 1
             b1 == [b EXCEPT !.rope = ensure_trailing_newline(b.rope)]
             lines == get_line_range_to_move(b1)
             start_line == lines[1]
             end_line == lines[2]
             r == b1.rope
         IN  IF end_line + 1 > len_lines(r) THEN Panic(b1)
             ELSE LET target_start_char == line_to_char(r, swap_target_line)
                      block_start_char == line_to_char(r, start_line)
                      block_end_char == line_to_char(r, end_line + 1)
                  IN  IF ~RangeOk(r, block_start_char, block_end_char)
                         \/ block_start_char < target_start_char
                      THEN Panic(b1)
                      ELSE LET block_text == RopeSlice(r, block_start_char, block_end_char)
                               removed == RopeRemove(r, block_start_char, block_end_char)
                               move_amount == block_start_char - target_start_char
                           IN  IF target_start_char > Len(removed)
                                  \/ b1.cursor < move_amount
                                  \/ (b1.selection_anchor /= None
                                      /\ b1.selection_anchor[1] < move_amount)
                               THEN Panic(b1)
                               ELSE [b1 EXCEPT
                                       !.rope = RopeInsert(removed, target_start_char, block_text),
                                       !.cursor = b1.cursor - move_amount,
                                       !.selection_anchor =
                                           IF b1.selection_anchor = None THEN None
                                           ELSE Some(b1.selection_anchor[1] - move_amount)]

move_lines_down(b) ==
    IF get_line_range_to_move_panics(b) THEN Panic(b)
    ELSE LET first == get_line_range_to_move(b) IN
    IF first[2] + 1 >= len_lines(b.rope) THEN b
    ELSE LET b1 == [b EXCEPT !.rope = ensure_trailing_newline(b.rope)]
             lines == get_line_range_to_move(b1)
             start_line == lines[1]
             end_line == lines[2]
             r == b1.rope
             total_lines == len_lines(r)
         IN  IF end_line + 1 >= total_lines THEN b1
             ELSE LET block_start_char == line_to_char(r, start_line)
                      block_end_char == line_to_char(r, end_line + 1)
                      block_len == block_end_char - block_start_char
                      target_line_below == end_line + 1
                      insertion_char_idx == line_to_char(r, target_line_below + 1)
                  IN  IF ~RangeOk(r, block_start_char, block_end_char)
                         \/ target_line_below + 1 > total_lines
                         \/ insertion_char_idx < block_len
                      THEN Panic(b1)
                      ELSE LET block_text == RopeSlice(r, block_start_char, block_end_char)
                               removed == RopeRemove(r, block_start_char, block_end_char)
                               new_insertion_idx == insertion_char_idx - block_len
                           IN  IF new_insertion_idx > Len(removed)
                                  \/ new_insertion_idx < block_start_char
                               THEN Panic(b1)
                               ELSE LET move_up_len == new_insertion_idx - block_start_char IN
                                    [b1 EXCEPT
                                       !.rope = RopeInsert(removed, new_insertion_idx, block_text),
                                       !.cursor = b1.cursor + move_up_len,
                                       !.selection_anchor =
                                           IF b1.selection_anchor = None THEN None
                                           ELSE Some(b1.selection_anchor[1] + move_up_len)]

\* ------------------------------------------------------- the state machine
Init ==
    /\ s0 \in InitialTexts
    /\ rope = from_str(s0).rope
    /\ cursor = from_str(s0).cursor
    /\ selection_anchor = from_str(s0).selection_anchor
    /\ undo_stack = from_str(s0).undo_stack
    /\ redo_stack = from_str(s0).redo_stack
    /\ panicked = from_str(s0).panicked
    /\ line_moves = 0
    /\ BufferOnly

\* What is left of the buffer once an operation has panicked: the process has
\* aborted and the buffer is gone.
Aborted == Panic(from_str(<<>>))

\* One call of a public operation on a live buffer: the state becomes b, or
\* Aborted when the operation panicked.
Call(b) ==
    /\ LET after == IF b.panicked THEN Aborted ELSE b IN
       /\ rope' = after.rope
       /\ cursor' = after.cursor
       /\ selection_anchor' = after.selection_anchor
       /\ undo_stack' = after.undo_stack
       /\ redo_stack' = after.redo_stack
       /\ panicked' = after.panicked
    /\ s0' = s0

\* Operations are called while the program lives.
Live == ~panicked

\* Recording edits and line moves are called while the budget lasts.
MayRecord ==
    Live /\ Len(undo_stack) + Len(redo_stack) + line_moves < MaxActions

\* An operation that leaves line_moves alone.
Op(b) ==
    /\ Call(b)
    /\ line_moves' = line_moves
    /\ UNCHANGED outside_buffer

\* A line move: counted when it changes the buffer.
LineMove(b) ==
    /\ Call(b)
    /\ line_moves' = IF b = Buf THEN line_moves ELSE line_moves + 1
    /\ UNCHANGED outside_buffer

Insert ==
    \E ch \in Alphabet :
        /\ MayRecord /\ Len(rope) < MaxLen
        /\ Op(insert(Buf, ch))

InsertStr ==
    \E text \in InsertTexts :
        /\ MayRecord /\ Len(rope) + Len(text) <= MaxLen
        /\ Op(insert_str(Buf, text))

Undo == Live /\ Op(undo(Buf))

Redo == Live /\ Op(redo(Buf))

Backspace == MayRecord /\ Op(backspace(Buf))

DeleteWordLeft == MayRecord /\ Op(delete_word_left(Buf))

Delete == MayRecord /\ Op(delete(Buf))

DeleteSelection == MayRecord /\ Op(delete_selection(Buf))

MoveLeft == \E selecting \in BOOLEAN : Live /\ Op(move_left(Buf, selecting))

MoveRight == \E selecting \in BOOLEAN : Live /\ Op(move_right(Buf, selecting))

MoveWordLeft ==
    \E selecting \in BOOLEAN : Live /\ Op(move_word_left(Buf, selecting))

MoveWordRight ==
    \E selecting \in BOOLEAN : Live /\ Op(move_word_right(Buf, selecting))

MoveUp == \E selecting \in BOOLEAN : Live /\ Op(move_up(Buf, selecting))

MoveDown == \E selecting \in BOOLEAN : Live /\ Op(move_down(Buf, selecting))

MoveToLineStart ==
    \E selecting \in BOOLEAN :
        Live /\ Op(move_to_line_start(Buf, selecting))

MoveToLineEnd ==
    \E selecting \in BOOLEAN :
        Live /\ Op(move_to_line_end(Buf, selecting))

MoveToStart ==
    \E selecting \in BOOLEAN : Live /\ Op(move_to_start(Buf, selecting))

MoveToEnd ==
    \E selecting \in BOOLEAN : Live /\ Op(move_to_end(Buf, selecting))

SetCursorByLineCol ==
    \E line \in {0, 1, FarIndex}, col \in {0, FarIndex}, selecting \in BOOLEAN :
        Live /\ Op(set_cursor_by_line_col(Buf, line, col, selecting))

StartSelection == Live /\ Op(start_selection(Buf))

ClearSelection == Live /\ Op(clear_selection(Buf))

SelectAll == Live /\ Op(select_all(Buf))

SelectWordAtCursor == Live /\ Op(select_word_at_cursor(Buf))

SelectLineAtCursor == Live /\ Op(select_line_at_cursor(Buf))

SelectedText ==
    Live /\ Op(IF selected_text_panics(Buf) THEN Panic(Buf) ELSE Buf)

CharToLineCol ==
    \E char_idx \in {0, FarIndex} :
        Live /\ Op(IF char_to_line_col_panics(Buf, char_idx) THEN Panic(Buf) ELSE Buf)

MoveLinesUp == MayRecord /\ LineMove(move_lines_up(Buf))

MoveLinesDown == MayRecord /\ LineMove(move_lines_down(Buf))

Next ==
    \/ Insert \/ InsertStr \/ Undo \/ Redo
    \/ Backspace \/ DeleteWordLeft \/ Delete \/ DeleteSelection
    \/ MoveLeft \/ MoveRight \/ MoveWordLeft \/ MoveWordRight
    \/ MoveUp \/ MoveDown \/ MoveToLineStart \/ MoveToLineEnd
    \/ MoveToStart \/ MoveToEnd \/ SetCursorByLineCol
    \/ StartSelection \/ ClearSelection \/ SelectAll \/ SelectWordAtCursor \/ SelectLineAtCursor
    \/ SelectedText \/ CharToLineCol
    \/ MoveLinesUp \/ MoveLinesDown

Spec == Init /\ [][Next]_vars

\* ------------------------------------------- the word movements on any text
\* A word character, '_', a blank and a character of neither kind.
WordAlphabet == {"a", "_", " ", "."}

\* Every text over WordAlphabet of at most MaxWordLen characters.
WordTexts == UNION {[1..n -> WordAlphabet] : n \in 0..MaxWordLen}

WordInit ==
    /\ s0 \in WordTexts
    /\ rope = from_str(s0).rope
    /\ cursor = from_str(s0).cursor
    /\ selection_anchor = from_str(s0).selection_anchor
    /\ undo_stack = from_str(s0).undo_stack
    /\ redo_stack = from_str(s0).redo_stack
    /\ panicked = from_str(s0).panicked
    /\ line_moves = 0
    /\ BufferOnly

WordNext ==
    \/ MoveLeft \/ MoveRight \/ MoveWordLeft \/ MoveWordRight
    \/ SelectWordAtCursor

WordSpec == WordInit /\ [][WordNext]_vars

\* ------------------------------------------ the line operations on any text
\* Every text over Alphabet of at most MaxLineTextLen characters.
LineTexts == UNION {[1..n -> Alphabet] : n \in 0..MaxLineTextLen}

LineInit ==
    /\ s0 \in LineTexts
    /\ rope = from_str(s0).rope
    /\ cursor = from_str(s0).cursor
    /\ selection_anchor = from_str(s0).selection_anchor
    /\ undo_stack = from_str(s0).undo_stack
    /\ redo_stack = from_str(s0).redo_stack
    /\ panicked = from_str(s0).panicked
    /\ line_moves = 0
    /\ BufferOnly

LineNext ==
    \/ MoveLeft \/ MoveRight \/ MoveUp \/ MoveDown
    \/ MoveLinesUp \/ MoveLinesDown

LineSpec == LineInit /\ [][LineNext]_vars

\* ------------------------------------------------------------- the claims
\* undo() called until the undo stack is empty.
RECURSIVE undo_all(_)
undo_all(b) ==
    IF b.panicked \/ b.undo_stack = <<>> THEN b ELSE undo_all(undo(b))

\* backspace() called n times.
RECURSIVE backspace_times(_, _)
backspace_times(b, n) ==
    IF n = 0 \/ b.panicked THEN b ELSE backspace_times(backspace(b), n - 1)

\* C1: after any sequence of operations on a buffer made by from_str(s0),
\* undoing until the undo stack is empty leaves the content equal to s0.
C1_UndoAllRestoresInitial ==
    ~panicked =>
        LET b == undo_all(Buf) IN ~b.panicked /\ b.rope = s0

\* C2: in every reachable state a set selection anchor is at most len_chars.
C2_AnchorInBounds ==
    selection_anchor /= None => selection_anchor[1] <= len_chars(rope)

\* C3: in every reachable state each operation that takes no index runs to
\* its end: none hands the rope an index or range outside [0, len_chars].
C3_OperationsNeverPanic ==
    ~panicked =>
        /\ ~selected_text_panics(Buf)
        /\ ~delete_selection(Buf).panicked
        /\ \A ch \in Alphabet : ~insert(Buf, ch).panicked
        /\ \A text \in InsertTexts : ~insert_str(Buf, text).panicked
        /\ ~backspace(Buf).panicked
        /\ ~delete(Buf).panicked
        /\ ~delete_word_left(Buf).panicked
        /\ ~undo(Buf).panicked
        /\ ~redo(Buf).panicked
        /\ ~move_lines_up(Buf).panicked
        /\ ~move_lines_down(Buf).panicked
        /\ ~select_word_at_cursor(Buf).panicked
        /\ ~select_line_at_cursor(Buf).panicked
        /\ \A selecting \in BOOLEAN :
              /\ ~move_word_left(Buf, selecting).panicked
              /\ ~move_up(Buf, selecting).panicked
              /\ ~move_down(Buf, selecting).panicked
              /\ ~move_to_line_start(Buf, selecting).panicked
              /\ ~move_to_line_end(Buf, selecting).panicked

\* A step of an operation other than undo and redo that may change the text.
ContentEdit ==
    \/ Insert \/ InsertStr \/ Backspace \/ Delete \/ DeleteWordLeft
    \/ DeleteSelection \/ MoveLinesUp \/ MoveLinesDown

\* C4: after an operation other than undo/redo has changed the content, the
\* redo stack is empty.
C4_RedoEmptyAfterEdit ==
    [][(ContentEdit /\ ~panicked' /\ rope' /= rope) => redo_stack' = <<>>]_vars

\* C5: in every reachable state, with or without an active selection,
\* insert(ch) or insert_str(s) followed by one undo() leaves the content and
\* the cursor as they were before the insert.
C5_InsertThenUndoRestores ==
    ~panicked =>
        /\ \A ch \in Alphabet :
              LET b == undo(insert(Buf, ch)) IN
              ~b.panicked /\ b.rope = rope /\ b.cursor = cursor
        /\ \A text \in InsertTexts :
              LET b == undo(insert_str(Buf, text)) IN
              ~b.panicked /\ b.rope = rope /\ b.cursor = cursor

\* Whether b, undone once, has the content and the cursor of the current state.
UndoRestores(b) ==
    LET b2 == undo(b) IN ~b2.panicked /\ b2.rope = rope /\ b2.cursor = cursor

\* An edit that removed something: it pushed an action.
Recorded(b) == ~b.panicked /\ b.undo_stack /= undo_stack

\* C6: backspace, forward delete, delete_word_left and delete_selection (the
\* cursor at either end of the selection), each followed by one undo(), leave
\* the content and the cursor as they were before the edit.
C6_RemoveThenUndoRestores ==
    ~panicked =>
        /\ Recorded(backspace(Buf)) => UndoRestores(backspace(Buf))
        /\ Recorded(delete(Buf)) => UndoRestores(delete(Buf))
        /\ Recorded(delete_word_left(Buf)) => UndoRestores(delete_word_left(Buf))
        /\ Recorded(delete_selection(Buf)) => UndoRestores(delete_selection(Buf))

\* C7: in every reachable state 0 <= cursor <= len_chars.
C7_CursorInBounds == 0 <= cursor /\ cursor <= len_chars(rope)

\* How many lines of r read l.
LineCount(r, l) ==
    Cardinality({i \in 0..(len_lines(r) - 1) : rope_line(r, i) = l})

\* The text is no reordering of the lines of s0 (with its newline appended).
Garbled ==
    \E i \in 0..(len_lines(rope) - 1) :
        LineCount(rope, rope_line(rope, i))
            /= LineCount(ensure_trailing_newline(s0), rope_line(rope, i))

\* A line move changed the text and then every recorded action was undone
\* against the moved text (the log was not told of the move).
C7_UndoAfterLineMove ==
    /\ ~panicked /\ line_moves > 0
    /\ undo_stack = <<>> /\ redo_stack /= <<>>
    /\ Garbled

\* C8: insert_str(s) followed by len(s) backspaces leaves the content as it
\* was before insert_str; stated for the states without an active selection,
\* where insert_str replaces nothing.
C8_InsertStrThenBackspaces ==
    (~panicked /\ ~has_selection(Buf)) =>
        \A text \in InsertTexts :
            LET b == backspace_times(insert_str(Buf, text), Len(text)) IN
            ~b.panicked /\ b.rope = rope

\* The edits of C9, applied to the current state.
EditResults ==
    {insert(Buf, ch) : ch \in Alphabet}
        \cup {insert_str(Buf, text) : text \in InsertTexts}
        \cup {backspace(Buf), delete(Buf), delete_word_left(Buf),
              delete_selection(Buf)}

C10_DeleteSelectionUndoRedo ==
    (~panicked /\ has_selection(Buf)) =>
        LET b1 == delete_selection(Buf)
            b2 == undo(b1)
            b3 == redo(b2)
        IN  /\ ~b1.panicked /\ ~b2.panicked /\ ~b3.panicked
            /\ b2.rope = rope
            /\ selection_range(b2) = None
            /\ ~has_selection(b2)
            /\ b3.rope = b1.rope
            /\ b3.undo_stack = b1.undo_stack

\* A step of move_lines_up or move_lines_down.
LineMoveStep == MoveLinesUp \/ MoveLinesDown

\* C11: a line move that changes the content leaves at least one new entry on
\* the undo stack.
C11_LineMoveIsRecorded ==
    [][(LineMoveStep /\ ~panicked' /\ rope' /= rope)
          => Len(undo_stack') > Len(undo_stack)]_vars

\* The first line a line move affects: the line of the cursor, or of the
\* start of the selection.
FirstMovedLine(b) ==
    LET range == selection_range(b) IN
    char_to_line(b.rope, IF range = None THEN b.cursor ELSE range[1][1])

\* Whether the last line a line move affects is the last line of the buffer;
\* FALSE when the end of the selection lies beyond the rope (no line holds it).
LastMovedLineIsLast(b) ==
    /\ ~get_line_range_to_move_panics(b)
    /\ get_line_range_to_move(b)[2] = len_lines(b.rope) - 1

\* C12: when the first affected line is not line 0, move_lines_up followed by
\* move_lines_down gives the original content, or the original content with
\* one line break appended when it ended without one.
C12_UpThenDownRestores ==
    (~panicked /\ FirstMovedLine(Buf) /= 0) =>
        LET b == move_lines_down(move_lines_up(Buf)) IN
        /\ ~b.panicked
        /\ b.rope \in {rope, ensure_trailing_newline(rope)}

\* C13: move_lines_up with the first affected line 0, and move_lines_down
\* with the last affected line the last line of the buffer, change nothing:
\* not the content, the cursor, the anchor nor the two stacks.
C13_LineMoveAtEdgeIsNoOp ==
    ~panicked =>
        /\ FirstMovedLine(Buf) = 0 => move_lines_up(Buf) = Buf
        /\ LastMovedLineIsLast(Buf) => move_lines_down(Buf) = Buf

\* Lines, columns and character indices handed to the position operations.
IndexInputs == {0, 1, 2, FarIndex}

\* C14: char_to_line_col and set_cursor_by_line_col accept every index, those
\* beyond the end of the buffer too: they complete and give a position inside
\* the buffer.
C14_IndicesAreClamped ==
    ~panicked =>
        /\ \A char_idx \in IndexInputs : ~char_to_line_col_panics(Buf, char_idx)
        /\ \A line \in IndexInputs, col \in IndexInputs, selecting \in BOOLEAN :
              LET b == set_cursor_by_line_col(Buf, line, col, selecting) IN
              ~b.panicked /\ b.cursor <= len_chars(b.rope)

\* The characters of line l of r other than its line break.
EffectiveLineLen(r, l) ==
    Cardinality({i \in 1..Len(r) : r[i] /= NL /\ NewlinesBefore(r, i) = l})

\* C15: set_cursor_by_line_col(line, col, _) puts the cursor on line
\* min(line, len_lines - 1) at column min(col, that line's length without its
\* line break), and char_to_line_col(cursor) returns exactly that pair.
C15_SetCursorClamps ==
    ~panicked =>
        \A line \in IndexInputs, col \in IndexInputs, selecting \in BOOLEAN :
            LET b == set_cursor_by_line_col(Buf, line, col, selecting)
                line1 == Min(line, len_lines(rope) - 1)
                col1 == Min(col, EffectiveLineLen(rope, line1))
            IN  /\ ~b.panicked
                /\ ~char_to_line_col_panics(b, b.cursor)
                /\ char_to_line_col(b, b.cursor) = <<line1, col1>>

\* The cursor stands where set_cursor_by_line_col(0, FarIndex, _) puts it, at
\* the end of a first line that holds text and ends in a line break: the
\* column was clamped and the line break left out.
C15_ClampedBeforeLineBreak ==
    /\ ~panicked /\ len_lines(rope) > 1
    /\ cursor = set_cursor_by_line_col(Buf, 0, FarIndex, FALSE).cursor
    /\ cursor > 0 /\ rope[cursor + 1] = NL

\* C16: content() is the whole text: from_str(s).content() = s for the text
\* the buffer was made from, and content() has len_chars characters after any
\* sequence of operations.
C16_ContentIsWholeText ==
    ~panicked =>
        /\ content(from_str(s0)) = s0
        /\ Len(content(Buf)) = len_chars(rope)

\* What insert(ch) / insert_str(text) give for each text inserted.
InsertResults ==
    {<<<<ch>>, insert(Buf, ch)>> : ch \in Alphabet}
        \cup {<<text, insert_str(Buf, text)>> : text \in InsertTexts}

\* C17: with an active selection [a, b) an insert of s gives old[0..a] + s +
\* old[b..], the cursor at a + len(s), no active selection and an empty redo
\* stack; without one, s goes in at the cursor and the cursor advances by
\* len(s).
C17_InsertReplacesSelection ==
    ~panicked =>
        \A res \in InsertResults :
            LET s == res[1]
                b == res[2]
                range == selection_range(Buf)
                a == IF range = None THEN cursor ELSE range[1][1]
                e == IF range = None THEN cursor ELSE range[1][2]
            IN  /\ ~b.panicked
                /\ b.rope = SubSeq(rope, 1, a) \o s \o SubSeq(rope, e + 1, Len(rope))
                /\ b.cursor = a + Len(s)
                /\ has_selection(Buf) => (~has_selection(b) /\ b.redo_stack = <<>>)

\* What backspace() and delete() must have done to the current state to give
\* b: removed [a, e) and pushed one Delete action holding it, or nothing at
\* all when a = e.
RemovedExactly(b, a, e) ==
    /\ ~b.panicked
    /\ b.rope = SubSeq(rope, 1, a) \o SubSeq(rope, e + 1, Len(rope))
    /\ b.undo_stack =
          IF a = e THEN undo_stack
          ELSE Append(undo_stack, ActDelete(a, SubSeq(rope, a + 1, e)))

\* C18: with an active selection backspace and delete remove exactly the
\* selected range and push one Delete action holding it; without one,
\* backspace removes the character before the cursor (nothing at offset 0)
\* and delete the character at the cursor (nothing at len_chars), pushing one
\* Delete action for it, or nothing when nothing is removed.
C18_BackspaceAndDelete ==
    ~panicked =>
        LET range == selection_range(Buf) IN
        IF range /= None
        THEN /\ RemovedExactly(backspace(Buf), range[1][1], range[1][2])
             /\ RemovedExactly(delete(Buf), range[1][1], range[1][2])
        ELSE /\ RemovedExactly(backspace(Buf), saturating_sub(cursor, 1), cursor)
             /\ RemovedExactly(delete(Buf), cursor, Min(cursor + 1, Len(rope)))

\* The category of the character at offset i of r.
CategoryAt(r, i) == category_check(r[i + 1])

\* The least offset j >= p where the run of category cat starting at p ends:
\* the end of the text, or the first character of another category.
RunEndRight(r, p, cat) ==
    CHOOSE j \in p..Len(r) :
        /\ j = Len(r) \/ CategoryAt(r, j) /= cat
        /\ \A k \in p..(j - 1) : CategoryAt(r, k) = cat

\* The greatest offset j <= p where the run of category cat ending at p
\* starts: offset 0, or just after the last character of another category.
RunEndLeft(r, p, cat) ==
    CHOOSE j \in 0..p :
        /\ j = 0 \/ CategoryAt(r, j - 1) /= cat
        /\ \A k \in j..(p - 1) : CategoryAt(r, k) = cat

\* Past the whitespace run at p, then past one run of the category met there.
WordRightTarget(r, p) ==
    LET q == RunEndRight(r, p, 2) IN
    IF q = Len(r) THEN q ELSE RunEndRight(r, q, CategoryAt(r, q))

WordLeftTarget(r, p) ==
    LET q == RunEndLeft(r, p, 2) IN
    IF q = 0 THEN q ELSE RunEndLeft(r, q, CategoryAt(r, q - 1))

\* C19: move_word_right puts the cursor past the maximal whitespace run at
\* the cursor and then past one maximal run of the category found there;
\* move_word_left is its mirror image; neither changes the content, and the
\* cursor stays where it is at the end (the start) of the buffer.
C19_WordMovement ==
    ~panicked =>
        \A selecting \in BOOLEAN :
            LET right == move_word_right(Buf, selecting)
                left == move_word_left(Buf, selecting)
            IN  /\ ~right.panicked /\ ~left.panicked
                /\ right.cursor = WordRightTarget(rope, cursor)
                /\ left.cursor = WordLeftTarget(rope, cursor)
                /\ right.rope = rope /\ left.rope = rope
                /\ cursor = len_chars(rope) => right.cursor = cursor
                /\ cursor = 0 => left.cursor = cursor

\* The cursor stands where move_word_right from offset 0 puts it on a text
\* that begins with a blank: past the blanks and one run, before more text.
C19_SkippedBlanksAndOneRun ==
    /\ ~panicked /\ Len(rope) > 0 /\ rope[1] = " "
    /\ cursor = move_word_right(from_str(rope), FALSE).cursor
    /\ cursor >= 2 /\ cursor < Len(rope)
    /\ CategoryAt(rope, cursor - 1) /= 2

\* What the movement operations give, each with the selecting flag it got.
MovementResults ==
    UNION { { <<selecting, move_left(Buf, selecting)>>,
              <<selecting, move_right(Buf, selecting)>>,
              <<selecting, move_word_left(Buf, selecting)>>,
              <<selecting, move_word_right(Buf, selecting)>>,
              <<selecting, move_up(Buf, selecting)>>,
              <<selecting, move_down(Buf, selecting)>>,
              <<selecting, move_to_line_start(Buf, selecting)>>,
              <<selecting, move_to_line_end(Buf, selecting)>>,
              <<selecting, move_to_start(Buf, selecting)>>,
              <<selecting, move_to_end(Buf, selecting)>> }
            \cup { <<selecting, set_cursor_by_line_col(Buf, line, col, selecting)>> :
                      line \in IndexInputs, col \in IndexInputs }
          : selecting \in BOOLEAN }

\* C20: a movement with selecting = false leaves no anchor; with selecting =
\* true it sets the anchor to the cursor before the move when there was none
\* and leaves an anchor that was there; no movement changes the content or
\* the undo and redo stacks.
C20_MovementAndAnchor ==
    ~panicked =>
        \A res \in MovementResults :
            LET selecting == res[1]
                b == res[2]
            IN  /\ ~b.panicked
                /\ b.rope = rope
                /\ b.undo_stack = undo_stack
                /\ b.redo_stack = redo_stack
                /\ b.selection_anchor =
                      IF ~selecting THEN None
                      ELSE IF selection_anchor = None THEN Some(cursor)
                      ELSE selection_anchor

\* A selection is being extended: an anchor away from the cursor is set, both
\* stacks hold an action, and one more selecting move_left moves the cursor
\* on from where the last movement left it.
C20_ExtendingSelection ==
    /\ ~panicked /\ has_selection(Buf)
    /\ undo_stack /= <<>> /\ redo_stack /= <<>>
    /\ move_left(Buf, TRUE).cursor /= cursor

C22_UndoRedoOnEmptyStack ==
    ~panicked =>
        /\ undo_stack = <<>> => undo(Buf) = Buf
        /\ redo_stack = <<>> => redo(Buf) = Buf

\* Every action has been undone and a selection made since: undo() now finds
\* its stack empty, with an anchor and a redo stack it must leave alone.
C22_NothingLeftToUndo ==
    /\ ~panicked /\ undo_stack = <<>> /\ redo_stack /= <<>>
    /\ has_selection(Buf)
    /\ undo(Buf) = Buf

\* insert(ch) called n times.
RECURSIVE insert_times(_, _, _)
insert_times(b, ch, n) ==
    IF n = 0 \/ b.panicked THEN b ELSE insert_times(insert(b, ch), ch, n - 1)

\* What the typing operations give in the current state.
TypingResults ==
    EditResults \ {delete_selection(Buf)}

\* C23: when no selection is active before insert, insert_str, backspace,
\* delete or delete_word_left, none is active after it, and two insert(ch)
\* calls in a row make the text two characters longer.
C23_TypingKeepsNoSelection ==
    (~panicked /\ ~has_selection(Buf)) =>
        /\ \A b \in TypingResults : ~b.panicked /\ ~has_selection(b)
        /\ \A ch \in Alphabet :
              LET b == insert_times(Buf, ch, 2) IN
              ~b.panicked /\ len_chars(b.rope) = len_chars(rope) + 2

\* The text is not empty and does not end in a line break.
LacksTrailingNewline(r) == len_chars(r) > 0 /\ r[len_chars(r)] /= NL

\* The text after a line move is the text before it, or one character longer
\* when the move touched the last line of a text without a final line break.
GrewOnlyAtLastLine(b, touches_last_line) ==
    /\ ~b.panicked
    /\ \/ len_chars(b.rope) = len_chars(rope)
       \/ /\ len_chars(b.rope) = len_chars(rope) + 1
          /\ LacksTrailingNewline(rope)
          /\ touches_last_line

\* C24: a line move appends a line break only when the buffer lacks a final
\* one and the move touches the last line (the block or the line it changes
\* places with is the last); a move among earlier lines leaves len_chars as
\* it was.
C24_NewlineOnlyAtLastLine ==
    (~panicked /\ ~get_line_range_to_move_panics(Buf)) =>
        LET lines == get_line_range_to_move(Buf)
            last == len_lines(rope) - 1
        IN  /\ GrewOnlyAtLastLine(move_lines_up(Buf), lines[2] = last)
            /\ GrewOnlyAtLastLine(move_lines_down(Buf), lines[2] + 1 = last)

\* Line i of r without its line break.
LineBody(r, i) ==
    LET l == rope_line(r, i) IN
    IF Len(l) > 0 /\ l[Len(l)] = NL THEN SubSeq(l, 1, Len(l) - 1) ELSE l

\* The lines of r, the first at index 1.
Lines(r) == [i \in 1..len_lines(r) |-> LineBody(r, i - 1)]

\* ls with the block of lines first..last (0-based) and the line below it
\* having changed places.
BlockMovedDown(ls, first, last) ==
    [i \in 1..Len(ls) |->
        IF i - 1 < first \/ i - 1 > last + 1 THEN ls[i]
        ELSE IF i - 1 = first THEN ls[last + 2]
        ELSE ls[i - 1]]

\* ls with the block of lines first..last (0-based) and the line above it
\* having changed places.
BlockMovedUp(ls, first, last) ==
    [i \in 1..Len(ls) |->
        IF i - 1 < first - 1 \/ i - 1 > last THEN ls[i]
        ELSE IF i - 1 = last THEN ls[first]
        ELSE ls[i + 1]]

\* Whether the lines of r are ls, or ls and the empty line that follows an
\* appended final line break.
HasLines(r, ls) == Lines(r) = ls \/ Lines(r) = Append(ls, <<>>)

\* Whether offset `after` in b is `by` lines below offset `before` in the
\* current text, at the same column.
ShiftedLines(b, before, after, by) ==
    /\ after >= 0 /\ after <= len_chars(b.rope)
    /\ char_to_line_col(b, after) =
          <<char_to_line_col(Buf, before)[1] + by, char_to_line_col(Buf, before)[2]>>

\* Whether the cursor and the anchor of b are those of the current state,
\* `by` lines lower at the same column.
CursorAndAnchorShifted(b, by) ==
    /\ ShiftedLines(b, cursor, b.cursor, by)
    /\ IF selection_anchor = None THEN b.selection_anchor = None
       ELSE /\ b.selection_anchor /= None
            /\ ShiftedLines(b, selection_anchor[1], b.selection_anchor[1], by)

\* C25: when the last affected line is not the last line of the buffer,
\* move_lines_down puts the block one line later: the line below it is above
\* it afterwards, every other line stays, and the cursor and the anchor end
\* one line lower at the same column.
C25_MoveLinesDown ==
    (~panicked /\ ~get_line_range_to_move_panics(Buf)) =>
        LET lines == get_line_range_to_move(Buf)
            b == move_lines_down(Buf)
        IN  lines[2] < len_lines(rope) - 1 =>
                /\ ~b.panicked
                /\ HasLines(b.rope, BlockMovedDown(Lines(rope), lines[1], lines[2]))
                /\ CursorAndAnchorShifted(b, 1)

\* C26: when the first affected line is not line 0, move_lines_up puts the
\* block one line earlier: the line above it is below it afterwards, every
\* other line stays, and the cursor and the anchor end one line higher at the
\* same column.
C26_MoveLinesUp ==
    (~panicked /\ ~get_line_range_to_move_panics(Buf)) =>
        LET lines == get_line_range_to_move(Buf)
            b == move_lines_up(Buf)
        IN  lines[1] > 0 =>
                /\ ~b.panicked
                /\ HasLines(b.rope, BlockMovedUp(Lines(rope), lines[1], lines[2]))
                /\ CursorAndAnchorShifted(b, -1)

\* How many characters of r are ch.
CharCount(r, ch) == Cardinality({i \in 1..Len(r) : r[i] = ch})

\* Whether the characters of b are those of the current text, or those and
\* one line break more when the current text lacks a final one.
SameCharacters(b) ==
    /\ ~b.panicked
    /\ \/ \A ch \in Alphabet : CharCount(b.rope, ch) = CharCount(rope, ch)
       \/ /\ LacksTrailingNewline(rope)
          /\ b.rope[len_chars(b.rope)] = NL
          /\ \A ch \in Alphabet :
                CharCount(b.rope, ch) =
                    CharCount(rope, ch) + (IF ch = NL THEN 1 ELSE 0)

\* C27: a line move only reorders lines: the characters after it are those
\* before it, with at most one line break appended at the very end, and that
\* only when the text did not end in one.
C27_LineMovesKeepCharacters ==
    ~panicked =>
        /\ SameCharacters(move_lines_up(Buf))
        /\ SameCharacters(move_lines_down(Buf))

\* Where delete_word_left starts removing, the cursor at p > 0 and no
\* selection active: at the start of the whitespace run before p when that
\* run has two characters or more, else where move_word_left would stop.
WordDeleteStart(b) ==
    LET blanks == RunEndLeft(b.rope, b.cursor, 2) IN
    IF b.cursor - blanks >= 2 THEN blanks
    ELSE move_word_left(b, FALSE).cursor

\* C28: without an active selection and with cursor > 0, delete_word_left
\* removes the whitespace run before the cursor when it has two characters or
\* more, and otherwise the span from where move_word_left would stop up to
\* the cursor; it pushes one Delete action and leaves the cursor at the start
\* of the span.  With an active selection it removes exactly the selection.
C28_DeleteWordLeft ==
    ~panicked =>
        LET b == delete_word_left(Buf)
            range == selection_range(Buf)
        IN  IF range /= None
            THEN /\ RemovedExactly(b, range[1][1], range[1][2])
                 /\ b.cursor = range[1][1]
            ELSE cursor > 0 =>
                    /\ WordDeleteStart(Buf) < cursor
                    /\ RemovedExactly(b, WordDeleteStart(Buf), cursor)
                    /\ b.cursor = WordDeleteStart(Buf)

\* The cursor at offset p with no anchor, the rest as in the current state.
CursorAt(p) == [Buf EXCEPT !.cursor = p, !.selection_anchor = None]

\* C29: from column c of line L, move_down puts the cursor on line
\* L + 1 at column min(c, length of that line without its line break), or at
\* len_chars when L is the last line; move_up puts it on line L - 1 in the
\* same way, or at offset 0 when L is line 0; the content is unchanged.
C29_MoveUpDown ==
    ~panicked =>
        \A selecting \in BOOLEAN :
            LET L == char_to_line_col(Buf, cursor)[1]
                c == char_to_line_col(Buf, cursor)[2]
                down == move_down(Buf, selecting)
                up == move_up(Buf, selecting)
            IN  /\ ~down.panicked /\ ~up.panicked
                /\ down.rope = rope /\ up.rope = rope
                /\ IF L < len_lines(rope) - 1
                   THEN char_to_line_col(down, down.cursor) =
                            <<L + 1, Min(c, EffectiveLineLen(rope, L + 1))>>
                   ELSE down.cursor = len_chars(rope)
                /\ IF L > 0
                   THEN char_to_line_col(up, up.cursor) =
                            <<L - 1, Min(c, EffectiveLineLen(rope, L - 1))>>
                   ELSE up.cursor = 0

\* The cursor stands where move_down put it from a column further right on
\* the line above: the column was clamped to the end of a shorter line.
C29_ClampedToShorterLine ==
    /\ ~panicked
    /\ \E p \in 0..len_chars(rope) :
          /\ char_to_line_col(Buf, p)[1] + 1 = char_to_line_col(Buf, cursor)[1]
          /\ char_to_line_col(Buf, p)[2] > char_to_line_col(Buf, cursor)[2]
          /\ move_down(CursorAt(p), FALSE).cursor = cursor

\* C30: on a text that is not empty select_word_at_cursor selects the maximal
\* run of one category around the character at the cursor (the last
\* character when the cursor is at the end): the anchor is the start of the
\* run and the cursor its end; on an empty text nothing changes.
C30_SelectWordAtCursor ==
    ~panicked =>
        LET b == select_word_at_cursor(Buf)
            len == len_chars(rope)
            idx == IF cursor = len THEN len - 1 ELSE cursor
        IN  IF len = 0 THEN b = Buf
            ELSE /\ ~b.panicked
                 /\ b.selection_anchor =
                       Some(RunEndLeft(rope, idx, CategoryAt(rope, idx)))
                 /\ b.cursor = RunEndRight(rope, idx, CategoryAt(rope, idx))
                 /\ b.rope = rope
                 /\ b.undo_stack = undo_stack /\ b.redo_stack = redo_stack

\* A run with text on both sides is selected: the anchor and the cursor are
\* where select_word_at_cursor puts them from a cursor inside the run.
C30_RunInsideTextSelected ==
    /\ ~panicked /\ has_selection(Buf)
    /\ selection_anchor[1] > 0 /\ selection_anchor[1] < cursor
    /\ cursor < len_chars(rope)
    /\ select_word_at_cursor(CursorAt(cursor - 1)) =
          [Buf EXCEPT !.selection_anchor = selection_anchor, !.cursor = cursor]
    /\ cursor - selection_anchor[1] >= 2

\* ------------------------------------------------- ui/list_widget.rs: a list
\* The most items a list is made with.
MaxItems == 11

\* The items the widget draws at most unless the renderer says otherwise:
\* `max_visible: 10` in ListWidget::new.
DefaultMaxVisible == 10

\* `let max_visible_items = 8`: the rows the notes picker draws and takes
\* clicks on.
max_visible_items == 8

\* The height of one row and the heights a click lands at, in pixels.
ItemHeight == 2
ClickHeights == {0 - 1, 0, 3, 21, 40}

\* The items predicates keep: none, every second one, all but the first.
FilterSets ==
    { {}, {i \in 1..MaxItems : i % 2 = 1}, 2..MaxItems }

\* 0, 1, ..., n - 1
Range(n) == [i \in 1..n |-> i - 1]

\* The 0-based indices of the items that are in keep, in order.
SelectIndices(items, keep) ==
    LET F[n \in 0..Len(items)] ==
            IF n = 0 THEN <<>>
            ELSE IF items[n] \in keep THEN Append(F[n - 1], n - 1)
            ELSE F[n - 1] IN
    F[Len(items)]

ListWidget_new(items) ==
    [items |-> items, filtered_indices |-> Range(Len(items)),
     selected_index |-> 0, scroll_offset |-> 0,
     max_visible |-> DefaultMaxVisible]

ListWidget_ensure_visible(l) ==
    IF l.selected_index < l.scroll_offset
    THEN [l EXCEPT !.scroll_offset = l.selected_index]
    ELSE IF l.selected_index >= l.scroll_offset + l.max_visible
    THEN [l EXCEPT !.scroll_offset = l.selected_index - l.max_visible + 1]
    ELSE l

\* The operations that answer whether the selection moved give the list and
\* the answer.
ListWidget_select_up(l) ==
    IF l.selected_index > 0
    THEN [list |-> ListWidget_ensure_visible(
                       [l EXCEPT !.selected_index = l.selected_index - 1]),
          ret |-> TRUE]
    ELSE [list |-> l, ret |-> FALSE]

ListWidget_select_down(l) ==
    IF l.filtered_indices /= <<>>
       /\ l.selected_index < Len(l.filtered_indices) - 1
    THEN [list |-> ListWidget_ensure_visible(
                       [l EXCEPT !.selected_index = l.selected_index + 1]),
          ret |-> TRUE]
    ELSE [list |-> l, ret |-> FALSE]

\* select_index without `if index < self.filtered_indices.len()`.
ListWidget_select_index_unchecked(l, index) ==
    [list |-> ListWidget_ensure_visible([l EXCEPT !.selected_index = index]),
     ret |-> TRUE]

ListWidget_select_index(l, index) ==
    IF index < Len(l.filtered_indices)
    THEN [list |-> ListWidget_ensure_visible(
                       [l EXCEPT !.selected_index = index]),
          ret |-> TRUE]
    ELSE [list |-> l, ret |-> FALSE]

\* `(relative_y / item_height) as usize`: the cast of a float rounds towards
\* zero and takes a negative value to 0.
RowOf(relative_y, item_height) ==
    IF relative_y < 0 THEN 0 ELSE relative_y \div item_height

ListWidget_select_at_position(l, relative_y, item_height) ==
    ListWidget_select_index(l, l.scroll_offset + RowOf(relative_y, item_height))

\* filter(predicate), for the predicate that holds of the items in keep.
ListWidget_filter(l, keep) ==
    [l EXCEPT !.filtered_indices = SelectIndices(l.items, keep),
              !.selected_index = 0,
              !.scroll_offset = 0]

ListWidget_clear_filter(l) ==
    [l EXCEPT !.filtered_indices = Range(Len(l.items)),
              !.selected_index = 0,
              !.scroll_offset = 0]

\* selected_item(): `filtered_indices.get(selected_index)` and then
\* `items.get(idx)`.
ListWidget_selected_item(l) ==
    IF l.selected_index < Len(l.filtered_indices)
    THEN LET idx == l.filtered_indices[l.selected_index + 1] IN
         IF idx < Len(l.items) THEN Some(l.items[idx + 1]) ELSE None
    ELSE None

\* The filtered positions the notes picker draws:
\* `filtered_indices().iter().skip(scroll_offset).take(max_visible_items)`.
DrawnPositions(l) ==
    {i \in 0..(Len(l.filtered_indices) - 1) :
        l.scroll_offset <= i /\ i < l.scroll_offset + max_visible_items}

\* A list on its own.
ListOnly ==
    /\ rope = <<>> /\ cursor = 0 /\ selection_anchor = None
    /\ undo_stack = <<>> /\ redo_stack = <<>> /\ panicked = FALSE
    /\ s0 = <<>> /\ line_moves = 0
    /\ NoTextInput /\ NoScrollState /\ NoApp

outside_list ==
    <<buffer_vars, text_input, scroll_vars, app_vars>>

ListInit ==
    /\ \E n \in 0..MaxItems : list = ListWidget_new([i \in 1..n |-> i])
    /\ returned = None
    /\ ListOnly

\* A call on the list that answers with a boolean.
ListCall(op, r) ==
    /\ list' = r.list
    /\ returned' = [op |-> op, value |-> r.ret]
    /\ UNCHANGED outside_list

\* A call on the list that answers nothing.
ListDo(op, l) ==
    /\ list' = l
    /\ returned' = [op |-> op, value |-> None]
    /\ UNCHANGED outside_list

ListSelectUp == ListCall("select_up", ListWidget_select_up(list))

ListSelectDown == ListCall("select_down", ListWidget_select_down(list))

ListSelectIndex ==
    \E index \in 0..MaxItems :
        ListCall("select_index", ListWidget_select_index(list, index))

ListSelectAtPosition ==
    \E relative_y \in ClickHeights :
        ListCall("select_at_position",
                 ListWidget_select_at_position(list, relative_y, ItemHeight))

ListFilter ==
    \E keep \in FilterSets : ListDo("filter", ListWidget_filter(list, keep))

ListClearFilter == ListDo("clear_filter", ListWidget_clear_filter(list))

ListNext ==
    \/ ListSelectUp \/ ListSelectDown \/ ListSelectIndex
    \/ ListSelectAtPosition \/ ListFilter \/ ListClearFilter

ListSpec == ListInit /\ [][ListNext]_vars

\* C33: in the notes picker, whenever the filtered list is non-empty, the
\* selected item is one of the rows the picker draws and takes clicks on:
\* scroll_offset <= selected_index < scroll_offset + max_visible_items.
C33_SelectedItemDrawn ==
    list.filtered_indices /= <<>> => list.selected_index \in DrawnPositions(list)

\* C37: selected_index is less than the number of filtered items whenever
\* there are any; select_up at index 0 and select_down at the last filtered
\* index answer false and change nothing; filter and clear_filter set
\* selected_index and scroll_offset to 0.
C37_SelectionInRange ==
    /\ list.filtered_indices /= <<>> =>
           list.selected_index < Len(list.filtered_indices)
    /\ list.selected_index = 0 =>
           ListWidget_select_up(list) = [list |-> list, ret |-> FALSE]
    /\ list.selected_index + 1 >= Len(list.filtered_indices) =>
           ListWidget_select_down(list) = [list |-> list, ret |-> FALSE]
    /\ \A keep \in FilterSets :
           LET l == ListWidget_filter(list, keep) IN
           l.selected_index = 0 /\ l.scroll_offset = 0
    /\ LET l == ListWidget_clear_filter(list) IN
       l.selected_index = 0 /\ l.scroll_offset = 0
    /\ returned /= None /\ returned.op \in {"filter", "clear_filter"} =>
           list.selected_index = 0 /\ list.scroll_offset = 0
    /\ returned /= None /\ returned.op \in {"select_up", "select_down"}
       /\ returned.value = FALSE =>
           \/ list.filtered_indices = <<>>
           \/ list.selected_index = 0
           \/ list.selected_index = Len(list.filtered_indices) - 1

\* C37: select_down was refused at the last item of a filtered list.
C37_RefusedAtLastItem ==
    /\ returned = [op |-> "select_down", value |-> FALSE]
    /\ Len(list.filtered_indices) > 1
    /\ Len(list.filtered_indices) < Len(list.items)
    /\ list.selected_index = Len(list.filtered_indices) - 1

\* ------------------------------------- ui/text_input.rs: a single-line input
\* The longest text an input holds.
MaxInputLen == 3

\* A word character and a blank; both take one byte, so that the byte offsets
\* the input counts in are character offsets.
InputAlphabet == {"a", " "}

\* Texts an input is made with.
InputTexts == UNION {[1..n -> InputAlphabet] : n \in 0..MaxInputLen}

\* Texts pasted into an input.
PastedTexts == { <<"a">>, <<" ", NL>> }

\* char::is_whitespace
is_whitespace(c) == c \in {" ", NL, "\r", "\t"}

\* char::is_control
is_control(c) == c \in {NL, "\r", "\t"}

\* scroll_offset, the horizontal pixel offset, is left out: no operation here
\* reads it.
TextInput_new(text) ==
    [text |-> text, cursor |-> Len(text), selection_anchor |-> None]

\* None, or Some(<<start, end>>) with start <= end.
TextInput_selection_range(t) ==
    IF t.selection_anchor = None THEN None
    ELSE LET anchor == t.selection_anchor[1] IN
         IF anchor < t.cursor THEN Some(<<anchor, t.cursor>>)
         ELSE Some(<<t.cursor, anchor>>)

\* The input afterwards, and whether there was a selection.
TextInput_delete_selection(t) ==
    LET range == TextInput_selection_range(t) IN
    IF range /= None
    THEN [input |-> [t EXCEPT !.text = RopeRemove(t.text, range[1][1], range[1][2]),
                              !.cursor = range[1][1],
                              !.selection_anchor = None],
          ret |-> TRUE]
    ELSE [input |-> t, ret |-> FALSE]

TextInput_insert_char(t, ch) ==
    IF is_control(ch) THEN t
    ELSE LET t1 == TextInput_delete_selection(t).input IN
         [t1 EXCEPT !.text = RopeInsert(t1.text, t1.cursor, <<ch>>),
                    !.cursor = t1.cursor + 1]

TextInput_backspace(t) ==
    LET d == TextInput_delete_selection(t) IN
    IF d.ret THEN d.input
    ELSE IF t.cursor > 0
    THEN [t EXCEPT !.cursor = t.cursor - 1,
                   !.text = RopeRemove(t.text, t.cursor - 1, t.cursor)]
    ELSE t

TextInput_delete(t) ==
    LET d == TextInput_delete_selection(t) IN
    IF d.ret THEN d.input
    ELSE IF t.cursor < Len(t.text)
    THEN [t EXCEPT !.text = RopeRemove(t.text, t.cursor, t.cursor + 1)]
    ELSE t

\* The offset a scan to the left from pos stops at: it passes the characters
\* that are whitespace (ws) or that are not (~ws).
RECURSIVE ScanLeft(_, _, _)
ScanLeft(text, pos, ws) ==
    IF pos > 0 /\ is_whitespace(text[pos]) = ws
    THEN ScanLeft(text, pos - 1, ws)
    ELSE pos

\* The same to the right.
RECURSIVE ScanRight(_, _, _)
ScanRight(text, pos, ws) ==
    IF pos < Len(text) /\ is_whitespace(text[pos + 1]) = ws
    THEN ScanRight(text, pos + 1, ws)
    ELSE pos

TextInput_find_word_boundary_left(t) ==
    ScanLeft(t.text, ScanLeft(t.text, t.cursor, TRUE), FALSE)

TextInput_find_word_boundary_right(t) ==
    ScanRight(t.text, ScanRight(t.text, t.cursor, FALSE), TRUE)

TextInput_delete_word_left(t) ==
    LET d == TextInput_delete_selection(t) IN
    IF d.ret THEN d.input
    ELSE IF t.cursor = 0 THEN t
    ELSE LET start == TextInput_find_word_boundary_left(t) IN
         [t EXCEPT !.text = RopeRemove(t.text, start, t.cursor),
                   !.cursor = start]

TextInput_delete_word_right(t) ==
    LET d == TextInput_delete_selection(t) IN
    IF d.ret THEN d.input
    ELSE IF t.cursor >= Len(t.text) THEN t
    ELSE LET word_end == ScanRight(t.text, t.cursor, FALSE)
             end == IF word_end = t.cursor
                    THEN ScanRight(t.text, word_end, TRUE)
                    ELSE word_end IN
         [t EXCEPT !.text = RopeRemove(t.text, t.cursor, end)]

\* `if selecting && self.selection_anchor.is_none()`
TextInput_begin(t, selecting) ==
    IF selecting /\ t.selection_anchor = None
    THEN [t EXCEPT !.selection_anchor = Some(t.cursor)]
    ELSE t

\* `if !selecting { self.selection_anchor = None; }`
TextInput_end(t, selecting) ==
    IF ~selecting THEN [t EXCEPT !.selection_anchor = None] ELSE t

TextInput_move_left(t, selecting) ==
    IF ~selecting /\ TextInput_selection_range(t) /= None
    THEN [t EXCEPT !.cursor = TextInput_selection_range(t)[1][1],
                   !.selection_anchor = None]
    ELSE IF t.cursor > 0
    THEN LET t1 == TextInput_begin(t, selecting) IN
         TextInput_end([t1 EXCEPT !.cursor = t.cursor - 1], selecting)
    ELSE t

TextInput_move_right(t, selecting) ==
    IF ~selecting /\ TextInput_selection_range(t) /= None
    THEN [t EXCEPT !.cursor = TextInput_selection_range(t)[1][2],
                   !.selection_anchor = None]
    ELSE IF t.cursor < Len(t.text)
    THEN LET t1 == TextInput_begin(t, selecting) IN
         TextInput_end([t1 EXCEPT !.cursor = t.cursor + 1], selecting)
    ELSE t

TextInput_move_word_left(t, selecting) ==
    LET t1 == TextInput_begin(t, selecting) IN
    TextInput_end([t1 EXCEPT !.cursor = TextInput_find_word_boundary_left(t)],
                  selecting)

TextInput_move_word_right(t, selecting) ==
    LET t1 == TextInput_begin(t, selecting) IN
    TextInput_end([t1 EXCEPT !.cursor = TextInput_find_word_boundary_right(t)],
                  selecting)

TextInput_move_to_start(t, selecting) ==
    LET t1 == TextInput_begin(t, selecting) IN
    TextInput_end([t1 EXCEPT !.cursor = 0], selecting)

TextInput_move_to_end(t, selecting) ==
    LET t1 == TextInput_begin(t, selecting) IN
    TextInput_end([t1 EXCEPT !.cursor = Len(t.text)], selecting)

TextInput_select_all(t) ==
    [t EXCEPT !.selection_anchor = Some(0), !.cursor = Len(t.text)]

\* The pasted text without '\n' and '\r'.
WithoutLineBreaks(text) ==
    LET F[n \in 0..Len(text)] ==
            IF n = 0 THEN <<>>
            ELSE IF text[n] \in {NL, "\r"} THEN F[n - 1]
            ELSE Append(F[n - 1], text[n]) IN
    F[Len(text)]

TextInput_paste(t, text) ==
    LET t1 == TextInput_delete_selection(t).input
        filtered == WithoutLineBreaks(text) IN
    [t1 EXCEPT !.text = RopeInsert(t1.text, t1.cursor, filtered),
               !.cursor = t1.cursor + Len(filtered)]

\* cut(): the selection goes when copy() gave Some, that is when the selected
\* text is not empty.
TextInput_cut(t) ==
    LET range == TextInput_selection_range(t) IN
    IF range /= None /\ range[1][1] < range[1][2]
    THEN TextInput_delete_selection(t).input
    ELSE t

\* An input on its own.
InputOnly ==
    /\ rope = <<>> /\ cursor = 0 /\ selection_anchor = None
    /\ undo_stack = <<>> /\ redo_stack = <<>> /\ panicked = FALSE
    /\ s0 = <<>> /\ line_moves = 0
    /\ NoList /\ NoScrollState /\ NoApp

outside_input ==
    <<buffer_vars, list, scroll_vars, app_vars>>

InputInit ==
    /\ \E text \in InputTexts : text_input = TextInput_new(text)
    /\ returned = None
    /\ InputOnly

\* A call on the input.
InputCall(op, t) ==
    /\ text_input' = t
    /\ returned' = [op |-> op, value |-> None]
    /\ UNCHANGED outside_input

InputInsertChar ==
    \E ch \in InputAlphabet \cup {NL} :
        /\ Len(text_input.text) < MaxInputLen
        /\ InputCall("insert_char", TextInput_insert_char(text_input, ch))

InputBackspace == InputCall("backspace", TextInput_backspace(text_input))

InputDelete == InputCall("delete", TextInput_delete(text_input))

InputDeleteWordLeft ==
    InputCall("delete_word_left", TextInput_delete_word_left(text_input))

InputDeleteWordRight ==
    InputCall("delete_word_right", TextInput_delete_word_right(text_input))

InputMoveLeft ==
    \E selecting \in BOOLEAN :
        InputCall("move_left", TextInput_move_left(text_input, selecting))

InputMoveRight ==
    \E selecting \in BOOLEAN :
        InputCall("move_right", TextInput_move_right(text_input, selecting))

InputMoveWordLeft ==
    \E selecting \in BOOLEAN :
        InputCall("move_word_left",
                  TextInput_move_word_left(text_input, selecting))

InputMoveWordRight ==
    \E selecting \in BOOLEAN :
        InputCall("move_word_right",
                  TextInput_move_word_right(text_input, selecting))

InputMoveToStart ==
    \E selecting \in BOOLEAN :
        InputCall("move_to_start",
                  TextInput_move_to_start(text_input, selecting))

InputMoveToEnd ==
    \E selecting \in BOOLEAN :
        InputCall("move_to_end", TextInput_move_to_end(text_input, selecting))

InputSelectAll == InputCall("select_all", TextInput_select_all(text_input))

InputDeleteSelection ==
    InputCall("delete_selection",
              TextInput_delete_selection(text_input).input)

InputPaste ==
    \E text \in PastedTexts :
        /\ Len(text_input.text) + Len(text) <= MaxInputLen
        /\ InputCall("paste", TextInput_paste(text_input, text))

InputCut == InputCall("cut", TextInput_cut(text_input))

InputNext ==
    \/ InputInsertChar \/ InputBackspace \/ InputDelete
    \/ InputDeleteWordLeft \/ InputDeleteWordRight
    \/ InputMoveLeft \/ InputMoveRight
    \/ InputMoveWordLeft \/ InputMoveWordRight
    \/ InputMoveToStart \/ InputMoveToEnd
    \/ InputSelectAll \/ InputDeleteSelection \/ InputPaste \/ InputCut

InputSpec == InputInit /\ [][InputNext]_vars

\* The input has a selection that holds at least one character.
NonEmptySelection(t) ==
    t.selection_anchor /= None /\ t.selection_anchor[1] /= t.cursor

\* C38: in every state of the input, backspace with cursor > 0 and no
\* non-empty selection removes exactly the character before the cursor, and
\* delete with the cursor before the end and no non-empty selection removes
\* exactly the character after it, also when an anchor equal to the cursor
\* is set.
C38_OneCharacterRemoved ==
    LET t == text_input IN
    ~NonEmptySelection(t) =>
        /\ t.cursor > 0 =>
               /\ TextInput_backspace(t).text = RopeRemove(t.text, t.cursor - 1, t.cursor)
               /\ TextInput_backspace(t).cursor = t.cursor - 1
        /\ t.cursor < Len(t.text) =>
               /\ TextInput_delete(t).text = RopeRemove(t.text, t.cursor, t.cursor + 1)
               /\ TextInput_delete(t).cursor = t.cursor

\* --------------------------------------- app/scroll_state.rs: scroll events
\* Time stops at MaxClock milliseconds.
MaxClock == 4004

\* An f32 delta y is held as the integer y * FixedOne.
FixedOne == 10000

\* `delta.abs() < 0.001`, times FixedOne.
DeadZone == 10

\* `ScrollInput::PixelDelta(y) => (y, 15.0)`: the pixels of one scroll unit.
PixelsPerUnit == 15

\* config::scroll::LINES_PER_WHEEL_TICK
LINES_PER_WHEEL_TICK == 1

\* `reset_timeout_ms: 1000` of ScrollConfig::default()
DefaultResetTimeoutMs == 1000

\* The deltas the system sends: none, 0.0005 either way, 1.0, -2.0 and 30.0.
Deltas == {0, 5, 0 - 5, FixedOne, 0 - 2 * FixedOne, 30 * FixedOne}

ScrollInputs == [kind : {"LineDelta", "PixelDelta"}, y : Deltas]

\* The default configuration, and the ones with_config is called with.
ScrollConfigs ==
    [lines_per_tick : {LINES_PER_WHEEL_TICK, 3},
     ignore_first_notch : BOOLEAN,
     reset_timeout_ms : {DefaultResetTimeoutMs}]

\* The milliseconds that pass between two events.
Pauses == {DefaultResetTimeoutMs, DefaultResetTimeoutMs + 1}

\* f32::abs
Abs(y) == IF y < 0 THEN 0 - y ELSE y

\* None, or Some(<<direction, magnitude>>);
\* magnitude is `(delta.abs() / divisor).max(1.0) as u32`.
ScrollInput_to_scroll_amount(input) ==
    LET delta == input.y
        divisor == IF input.kind = "LineDelta" THEN 1 ELSE PixelsPerUnit IN
    IF Abs(delta) < DeadZone THEN None
    ELSE LET direction == IF delta > 0 THEN "Up" ELSE "Down"
             quotient == Abs(delta) \div (divisor * FixedOne)
             magnitude == IF quotient < 1 THEN 1 ELSE quotient IN
         Some(<<direction, magnitude>>)

ScrollState_with_config(config) ==
    [config |-> config, first_notch_ignored |-> FALSE,
     last_scroll_time |-> None]

ScrollState_reset(s) ==
    [s EXCEPT !.first_notch_ignored = FALSE, !.last_scroll_time = None]

\* process_scroll without the check of the time since the last input.
ScrollState_process_scroll_without_timeout(s, t, input) ==
    LET amount == ScrollInput_to_scroll_amount(input) IN
    IF amount = None THEN [state |-> s, ret |-> None]
    ELSE LET s2 == [s EXCEPT !.last_scroll_time = Some(t)] IN
         IF s2.config.ignore_first_notch /\ ~s2.first_notch_ignored
         THEN [state |-> [s2 EXCEPT !.first_notch_ignored = TRUE],
               ret |-> None]
         ELSE [state |-> s2,
               ret |-> Some(<<amount[1][1],
                              amount[1][2] * s2.config.lines_per_tick>>)]

\* process_scroll at time t: the state afterwards and the answer, None or
\* Some(<<direction, lines>>).
ScrollState_process_scroll(s, t, input) ==
    LET amount == ScrollInput_to_scroll_amount(input) IN
    IF amount = None THEN [state |-> s, ret |-> None]
    ELSE LET s1 == IF s.last_scroll_time /= None
                      /\ t - s.last_scroll_time[1] > s.config.reset_timeout_ms
                   THEN ScrollState_reset(s)
                   ELSE s
             s2 == [s1 EXCEPT !.last_scroll_time = Some(t)] IN
         IF s2.config.ignore_first_notch /\ ~s2.first_notch_ignored
         THEN [state |-> [s2 EXCEPT !.first_notch_ignored = TRUE],
               ret |-> None]
         ELSE [state |-> s2,
               ret |-> Some(<<amount[1][1],
                              amount[1][2] * s2.config.lines_per_tick>>)]

\* A ScrollState on its own.
ScrollOnly ==
    /\ rope = <<>> /\ cursor = 0 /\ selection_anchor = None
    /\ undo_stack = <<>> /\ redo_stack = <<>> /\ panicked = FALSE
    /\ s0 = <<>> /\ line_moves = 0
    /\ NoList /\ NoTextInput /\ NoApp

outside_scroll ==
    <<buffer_vars, list, text_input, app_vars>>

ScrollInit ==
    /\ \E config \in ScrollConfigs :
           scroll_state = ScrollState_with_config(config)
    /\ now = 0
    /\ last_input = None
    /\ returned = None
    /\ ScrollOnly

\* The time since the last input that counted, if there is one.
Gap == IF last_input = None THEN None ELSE Some(now - last_input[1])

ProcessScrollOf(input) ==
    LET r == ScrollState_process_scroll(scroll_state, now, input) IN
    /\ scroll_state' = r.state
    /\ last_input' = IF ScrollInput_to_scroll_amount(input) = None
                     THEN last_input
                     ELSE Some(now)
    /\ returned' = [op |-> "process_scroll", input |-> input, gap |-> Gap,
                    value |-> r.ret]
    /\ now' = now
    /\ UNCHANGED outside_scroll

ProcessScroll == \E input \in ScrollInputs : ProcessScrollOf(input)

ScrollReset ==
    /\ scroll_state' = ScrollState_reset(scroll_state)
    /\ last_input' = None
    /\ returned' = [op |-> "reset", input |-> None, gap |-> Gap,
                    value |-> None]
    /\ now' = now
    /\ UNCHANGED outside_scroll

\* Time passes.
Pause ==
    \E ms \in Pauses :
        /\ now + ms <= MaxClock
        /\ now' = now + ms
        /\ UNCHANGED <<scroll_state, last_input, returned, outside_scroll>>

ScrollNext == ProcessScroll \/ ScrollReset \/ Pause

ScrollSpec == ScrollInit /\ [][ScrollNext]_vars

\* The input is outside the dead zone: its magnitude is at least 0.001.
Counts(input) == Abs(input.y) >= DeadZone

\* More than reset_timeout_ms have passed since the last input that counted.
Lapsed ==
    /\ last_input /= None
    /\ now - last_input[1] > scroll_state.config.reset_timeout_ms

\* No input has counted since the ScrollState was made or reset, or the last
\* one is too long ago.
FirstOfSession == last_input = None \/ Lapsed

ScrollDirection(input) == IF input.y > 0 THEN "Up" ELSE "Down"

\* The scroll units of the input, at least one.
ScrollMagnitude(input) ==
    LET units == IF input.kind = "LineDelta"
                 THEN Abs(input.y) \div FixedOne
                 ELSE Abs(input.y) \div (PixelsPerUnit * FixedOne) IN
    IF units < 1 THEN 1 ELSE units

\* What the call is to answer for an input that is not ignored as zero.
ExpectedAnswer(input) ==
    IF scroll_state.config.ignore_first_notch /\ FirstOfSession THEN None
    ELSE Some(<<ScrollDirection(input),
                ScrollMagnitude(input) * scroll_state.config.lines_per_tick>>)

\* C34, amended: for an input of magnitude at least 0.001, process_scroll
\* answers None when ignore_first_notch is set and the input is the first
\* since creation, since reset() or after more than reset_timeout_ms without
\* input, and Some((direction, magnitude * lines_per_tick)) otherwise; for an
\* input of magnitude below 0.001 it answers None and leaves the state as it
\* is.
C34_ProcessScroll ==
    [][\A input \in ScrollInputs :
          ProcessScrollOf(input) =>
              IF Counts(input)
              THEN returned'.value = ExpectedAnswer(input)
              ELSE returned'.value = None /\ scroll_state' = scroll_state]_vars

\* C34: the first notch after a pause of more than reset_timeout_ms was
\* ignored.
C34_IgnoredAfterPause ==
    /\ returned /= None
    /\ returned.op = "process_scroll"
    /\ Counts(returned.input)
    /\ returned.value = None
    /\ returned.gap /= None
    /\ returned.gap[1] > scroll_state.config.reset_timeout_ms
    /\ scroll_state.first_notch_ignored

\* C34 as stated: every non-zero input is answered as above, and only a zero
\* input is answered None with the state left as it is.
C34_EveryNonZeroInput ==
    [][\A input \in ScrollInputs :
          ProcessScrollOf(input) =>
              IF input.y /= 0
              THEN returned'.value = ExpectedAnswer(input)
              ELSE returned'.value = None /\ scroll_state' = scroll_state]_vars

\* ------------------------------------------- tab.rs and app/: the application
\* The notes in the data directory.
MaxNotes == 2

\* Tabs are opened while fewer than MaxTabs are open, and new_tab is called
\* while COUNTER is less than MaxTabs.
MaxTabs == 3

\* persistence::list_notes(): the paths of the notes, sorted.
Paths == 1..MaxNotes

list_notes == [i \in 1..MaxNotes |-> i]

\* What the file of a note holds.
NoteText(path) == IF path % 2 = 1 THEN <<"a", NL>> ELSE <<NL, "a">>

\* persistence::load_note_title: "a", "aB", "aBB", ...
NoteTitle(path) == [i \in 1..path |-> IF i = 1 THEN "a" ELSE "B"]

Digits == <<"0", "1", "2", "3", "4", "5", "6", "7", "8", "9">>

\* format!("Untitled-{}", num)
UntitledTitle(num) ==
    <<"U", "n", "t", "i", "t", "l", "e", "d", "-", Digits[num + 1]>>

\* The lines a window shows: visible_lines() is at least 1.
WindowLines == {1, 2}

\* ------------------------------------------------------------------- Tab
\* Tab { buffer, path, title, scroll_offset }; modified, scroll_offset_x and
\* word_wrap are left out.
Tab_new_untitled(num) ==
    [buffer |-> from_str(<<>>), path |-> None, title |-> UntitledTitle(num),
     scroll_offset |-> 0]

\* None when the file cannot be read.
Tab_from_file(path, files) ==
    IF path \in files
    THEN Some([buffer |-> from_str(NoteText(path)), path |-> Some(path),
               title |-> NoteTitle(path), scroll_offset |-> 0])
    ELSE None

\* cursor_line(): `text.chars().take(cursor).filter(|&c| c == '\n').count()`
\* over content().
Tab_cursor_line(tab) ==
    LET text == content(tab.buffer) IN
    NewlinesBefore(text, Min(tab.buffer.cursor, Len(text)))

\* ensure_cursor_visible, the vertical part; cursor_col() panics when
\* char_to_line_col does.
Tab_ensure_cursor_visible(tab, visible) ==
    LET cursor_line == Tab_cursor_line(tab)
        up == IF cursor_line < tab.scroll_offset THEN cursor_line
              ELSE tab.scroll_offset
        down == IF cursor_line >= up + visible
                THEN saturating_sub(cursor_line, visible - 1)
                ELSE up IN
    IF char_to_line_col_panics(tab.buffer, tab.buffer.cursor)
    THEN [tab EXCEPT !.buffer = Panic(tab.buffer)]
    ELSE [tab EXCEPT !.scroll_offset = down]

\* ------------------------------------------------------------------- App
\* The application as one value; ret is the AppResult of the last call.
App ==
    [tabs |-> tabs, active_tab |-> active_tab, renaming_tab |-> renaming_tab,
     rename_input |-> rename_input, focus |-> focus,
     visible_lines |-> visible_lines, COUNTER |-> COUNTER, disk |-> disk,
     panicked |-> panicked, ret |-> "Ok"]

AppPanic(a) == [a EXCEPT !.panicked = TRUE]

Ok(a) == [a EXCEPT !.ret = "Ok"]

Redraw(a) == [a EXCEPT !.ret = "Redraw"]

\* Focus::Editor
Editor == [kind |-> "Editor"]

\* The tabs of the paths that can be read, in order.
LoadTabs(paths, files) ==
    LET F[n \in 0..Len(paths)] ==
            IF n = 0 THEN <<>>
            ELSE IF Tab_from_file(paths[n], files) /= None
            THEN Append(F[n - 1], Tab_from_file(paths[n], files)[1])
            ELSE F[n - 1] IN
    F[Len(paths)]

Max(S) == CHOOSE x \in S : \A y \in S : y <= x

\* App::new: session is what load_session_state gave, None or the paths of the
\* tabs with the path of the active one.
App_new(session, files, visible) ==
    LET paths == IF session /= None THEN session[1].tabs ELSE list_notes
        loaded_tabs == LoadTabs(paths, files)
        hits == IF session = None THEN {}
                ELSE {index \in 0..(Len(paths) - 1) :
                         /\ paths[index + 1] \in files
                         /\ session[1].active_path = Some(paths[index + 1])}
        active_index == IF hits = {} THEN 0 ELSE Max(hits)
        empty == loaded_tabs = <<>> IN
    [tabs |-> IF empty THEN <<Tab_new_untitled(1)>> ELSE loaded_tabs,
     active_tab |-> active_index,
     renaming_tab |-> None, rename_input |-> None, focus |-> Editor,
     visible_lines |-> visible,
     COUNTER |-> IF empty THEN 2 ELSE 1,
     disk |-> files, panicked |-> FALSE, ret |-> "Ok"]

\* auto_scroll: `self.tabs[self.active_tab]` panics on an index out of range.
App_auto_scroll(a) ==
    IF a.active_tab >= Len(a.tabs) THEN AppPanic(a)
    ELSE LET tab == Tab_ensure_cursor_visible(a.tabs[a.active_tab + 1],
                                               a.visible_lines) IN
         IF tab.buffer.panicked THEN AppPanic(a)
         ELSE [a EXCEPT !.tabs[a.active_tab + 1] = tab]

\* Vec::remove and Vec::insert, on 0-based indices.
VecRemove(v, index) == SubSeq(v, 1, index) \o SubSeq(v, index + 2, Len(v))

VecInsert(v, index, x) ==
    SubSeq(v, 1, index) \o <<x>> \o SubSeq(v, index + 1, Len(v))

App_new_tab(a) ==
    LET a1 == [a EXCEPT !.tabs = Append(a.tabs, Tab_new_untitled(a.COUNTER)),
                        !.COUNTER = a.COUNTER + 1] IN
    Redraw(App_auto_scroll([a1 EXCEPT !.active_tab = Len(a1.tabs) - 1]))

App_close_current_tab(a) ==
    IF Len(a.tabs) <= 1 THEN Ok(a)
    ELSE IF a.active_tab >= Len(a.tabs) THEN AppPanic(a)
    ELSE LET a1 == [a EXCEPT !.tabs = VecRemove(a.tabs, a.active_tab)]
             a2 == IF a1.active_tab >= Len(a1.tabs)
                   THEN [a1 EXCEPT !.active_tab = Len(a1.tabs) - 1]
                   ELSE a1 IN
         Redraw(App_auto_scroll(a2))

App_next_tab(a) ==
    IF a.tabs = <<>> THEN Ok(a)
    ELSE Redraw(App_auto_scroll(
             [a EXCEPT !.active_tab = (a.active_tab + 1) % Len(a.tabs)]))

App_previous_tab(a) ==
    IF a.tabs = <<>> THEN Ok(a)
    ELSE Redraw(App_auto_scroll(
             [a EXCEPT !.active_tab = IF a.active_tab = 0
                                      THEN Len(a.tabs) - 1
                                      ELSE a.active_tab - 1]))

App_go_to_tab(a, index) ==
    IF index >= Len(a.tabs) THEN Ok(a)
    ELSE Redraw(App_auto_scroll([a EXCEPT !.active_tab = index]))

\* str::trim
Trim(text) ==
    LET start == ScanRight(text, 0, TRUE)
        end == ScanLeft(text, Len(text), TRUE) IN
    IF start >= end THEN <<>> ELSE SubSeq(text, start + 1, end)

App_start_rename(a, tab_index) ==
    IF tab_index < Len(a.tabs)
    THEN [a EXCEPT !.renaming_tab = Some(tab_index),
                   !.rename_input =
                       Some(TextInput_select_all(
                                TextInput_new(a.tabs[tab_index + 1].title)))]
    ELSE a

App_confirm_rename(a) ==
    IF a.renaming_tab /= None
    THEN LET tab_index == a.renaming_tab[1]
             a1 == [a EXCEPT !.renaming_tab = None, !.rename_input = None] IN
         IF a.rename_input /= None
            /\ Trim(a.rename_input[1].text) /= <<>>
            /\ tab_index < Len(a.tabs)
         THEN Redraw([a1 EXCEPT !.tabs[tab_index + 1].title =
                                    Trim(a.rename_input[1].text)])
         ELSE Redraw(a1)
    ELSE Ok(a)

App_cancel_rename(a) ==
    IF a.renaming_tab /= None
    THEN Redraw([a EXCEPT !.renaming_tab = None, !.rename_input = None])
    ELSE Ok(a)

\* The index of the active tab after the tab at from_index went to to_index.
ActiveAfterMove(active, from_index, to_index, len) ==
    IF active = from_index THEN to_index
    ELSE IF from_index < active /\ to_index >= active
    THEN saturating_sub(active, 1)
    ELSE IF from_index > active /\ to_index <= active
    THEN Min(active + 1, len - 1)
    ELSE active

\* reorder_tab_at with the active index following the moved tab only.
App_reorder_tab_at_without_shift(a, from_index, hit) ==
    IF a.renaming_tab /= None THEN Ok(a)
    ELSE IF hit /= None /\ hit[1] /= from_index
            /\ from_index < Len(a.tabs) /\ hit[1] < Len(a.tabs)
    THEN LET to_index == hit[1]
             tab == a.tabs[from_index + 1]
             moved == VecInsert(VecRemove(a.tabs, from_index), to_index, tab) IN
         Redraw([a EXCEPT !.tabs = moved,
                          !.active_tab = IF a.active_tab = from_index
                                         THEN to_index ELSE a.active_tab])
    ELSE Ok(a)

\* reorder_tab_at: hit is the tab under the pointer, None or Some(to_index),
\* as UiTree::hit_test finds it.  The renaming index is moved along as the
\* code does, though a set one has ended the call before.
App_reorder_tab_at(a, from_index, hit) ==
    IF a.renaming_tab /= None THEN Ok(a)
    ELSE IF hit /= None /\ hit[1] /= from_index
            /\ from_index < Len(a.tabs) /\ hit[1] < Len(a.tabs)
    THEN LET to_index == hit[1]
             tab == a.tabs[from_index + 1]
             moved == VecInsert(VecRemove(a.tabs, from_index), to_index, tab) IN
         Redraw([a EXCEPT !.tabs = moved,
                          !.active_tab = ActiveAfterMove(a.active_tab, from_index,
                                                         to_index, Len(moved))])
    ELSE Ok(a)

\* ------------------------------------------------------ the tabs of an App
\* Sequences without repetition of at most n members of S.
DistinctSeqs(S, n) ==
    {s \in UNION {[1..k -> S] : k \in 0..n} :
        \A i, j \in 1..Len(s) : i /= j => s[i] /= s[j]}

\* What load_session_state gives: None, or tabs and an active path of which
\* one is there.  Every TabState was saved with the cursor at the start and
\* nothing scrolled, so that apply_state leaves the loaded tab as it is.
Sessions ==
    {None} \cup
    {Some(s) : s \in
        {t \in [tabs : DistinctSeqs(Paths, MaxNotes),
                active_path : {None} \cup {Some(p) : p \in Paths}] :
            t.tabs /= <<>> \/ t.active_path /= None}}

\* An App with no TextBuffer, list or input outside it.
AppOnly ==
    /\ rope = <<>> /\ cursor = 0 /\ selection_anchor = None
    /\ undo_stack = <<>> /\ redo_stack = <<>>
    /\ s0 = <<>> /\ line_moves = 0
    /\ NoList /\ NoTextInput /\ NoScrollState

outside_app ==
    <<rope, cursor, selection_anchor, undo_stack, redo_stack, s0, line_moves,
      list, text_input, scroll_vars>>

\* The application is a, just made.
AppStarts(a) ==
    /\ tabs = a.tabs
    /\ active_tab = a.active_tab
    /\ renaming_tab = a.renaming_tab
    /\ rename_input = a.rename_input
    /\ focus = a.focus
    /\ visible_lines = a.visible_lines
    /\ COUNTER = a.COUNTER
    /\ disk = a.disk
    /\ panicked = a.panicked
    /\ returned = None
    /\ AppOnly

TabsInit ==
    \E session \in Sessions, files \in SUBSET Paths :
        AppStarts(App_new(session, files, Max(WindowLines)))

\* One call on the application: it becomes a, or the process aborts where the
\* call panicked.
AppCall(op, input, a) ==
    /\ IF a.panicked
       THEN /\ panicked' = TRUE
            /\ returned' = [op |-> op, input |-> input, value |-> "panic"]
            /\ UNCHANGED app_vars
       ELSE /\ panicked' = FALSE
            /\ returned' = [op |-> op, input |-> input, value |-> a.ret]
            /\ tabs' = a.tabs
            /\ active_tab' = a.active_tab
            /\ renaming_tab' = a.renaming_tab
            /\ rename_input' = a.rename_input
            /\ focus' = a.focus
            /\ visible_lines' = a.visible_lines
            /\ COUNTER' = a.COUNTER
            /\ disk' = a.disk
    /\ UNCHANGED outside_app

NewTab ==
    /\ Live /\ Len(tabs) < MaxTabs /\ COUNTER < MaxTabs
    /\ AppCall("new_tab", None, App_new_tab(App))

CloseCurrentTab ==
    Live /\ AppCall("close_current_tab", None, App_close_current_tab(App))

NextTab == Live /\ AppCall("next_tab", None, App_next_tab(App))

PreviousTab == Live /\ AppCall("previous_tab", None, App_previous_tab(App))

GoToTab ==
    \E index \in 0..MaxTabs :
        Live /\ AppCall("go_to_tab", index, App_go_to_tab(App, index))

ReorderTabAt ==
    \E from_index \in 0..MaxTabs,
       hit \in {None} \cup {Some(i) : i \in 0..(Len(tabs) - 1)} :
        /\ Live
        /\ AppCall("reorder_tab_at", <<from_index, hit>>,
                   App_reorder_tab_at(App, from_index, hit))

TabsNext ==
    \/ NewTab \/ CloseCurrentTab \/ NextTab \/ PreviousTab \/ GoToTab
    \/ ReorderTabAt

TabsSpec == TabsInit /\ [][TabsNext]_vars


\* ------------------------------------------------------------ the tab claims
\* The document that is active, None when active_tab names no tab.
ActiveDoc(a) ==
    IF a.active_tab < Len(a.tabs) THEN Some(a.tabs[a.active_tab + 1]) ELSE None

\* C35: while the application runs the tab list is non-empty and active_tab
\* is less than tabs.len(); close_current_tab leaves a single remaining tab
\* open, and go_to_tab with an index of no tab changes nothing.
C35_ActiveTabInRange ==
    ~panicked =>
        /\ Len(tabs) > 0
        /\ active_tab < Len(tabs)
        /\ Len(tabs) = 1 => App_close_current_tab(App).tabs = tabs
        /\ \A index \in Len(tabs)..(MaxTabs + 1) :
               App_go_to_tab(App, index) = App

\* The places a reorder can name: from_index and to_index of two different
\* open tabs.
TabMoves ==
    {m \in (0..(Len(tabs) - 1)) \X (0..(Len(tabs) - 1)) : m[1] /= m[2]}

\* C36: reorder_tab_at moving the tab at from_index to a different valid
\* to_index keeps the same document active, puts the moved tab at to_index
\* and leaves the other tabs in the order they had.
C36_SameDocumentActive ==
    ~panicked =>
        \A m \in TabMoves :
            LET a2 == App_reorder_tab_at(App, m[1], Some(m[2])) IN
            /\ ~a2.panicked
            /\ ActiveDoc(a2) = ActiveDoc(App)
            /\ a2.tabs[m[2] + 1] = tabs[m[1] + 1]
            /\ VecRemove(a2.tabs, m[2]) = VecRemove(tabs, m[1])

\* C36 happens: a reorder has just carried a tab from one side of the active
\* tab to the other, so that the active index had to shift.
C36_MovedAcrossActiveTab ==
    /\ returned /= None
    /\ returned.op = "reorder_tab_at"
    /\ returned.value = "Redraw"
    /\ LET from_index == returned.input[1]
           to_index == returned.input[2][1] IN
       /\ to_index < active_tab
       /\ active_tab <= from_index
       /\ ActiveDoc(App) /= None


\* ------------------------------------------------ app/focus.rs: the picker
\* The characters typed into the search field of the notes picker.
PickerChars == {"a", "B"}

\* str::to_lowercase, over the letters of the titles.
to_lowercase(text) ==
    [i \in 1..Len(text) |-> IF text[i] = "B" THEN "b" ELSE text[i]]

\* str::contains
Contains(text, pat) ==
    \E i \in 0..(Len(text) - Len(pat)) : SubSeq(text, i + 1, i + Len(pat)) = pat

\* Focus::NotesPicker { input, list }
NotesPicker(input, l) == [kind |-> "NotesPicker", input |-> input, list |-> l]

Focus_is_notes_picker(f) == f.kind = "NotesPicker"

Focus_start_notes_picker(notes) ==
    NotesPicker(TextInput_new(<<>>), ListWidget_new(notes))

Focus_update_notes_filter(f) ==
    IF Focus_is_notes_picker(f)
    THEN LET query == to_lowercase(f.input.text)
             notes == {f.list.items[i] : i \in 1..Len(f.list.items)} IN
         IF query = <<>>
         THEN [f EXCEPT !.list = ListWidget_clear_filter(f.list)]
         ELSE [f EXCEPT !.list = ListWidget_filter(f.list,
                   {note \in notes : Contains(to_lowercase(note.title), query)})]
    ELSE f

\* The focus and the path of the selected note, None when there is none.
Focus_confirm_notes_picker(f) ==
    IF Focus_is_notes_picker(f)
    THEN LET note == ListWidget_selected_item(f.list) IN
         [focus |-> Editor,
          ret |-> IF note = None THEN None ELSE Some(note[1].path)]
    ELSE [focus |-> f, ret |-> None]

Focus_cancel_notes_picker(f) ==
    IF Focus_is_notes_picker(f) THEN [focus |-> Editor, ret |-> TRUE]
    ELSE [focus |-> f, ret |-> FALSE]

\* The InputHandler of Focus: the focus and an InputResult.
Focus_handle_char(f, ch) ==
    IF Focus_is_notes_picker(f)
    THEN [focus |-> Focus_update_notes_filter(
                        [f EXCEPT !.input = TextInput_insert_char(f.input, ch)]),
          ret |-> "Handled"]
    ELSE [focus |-> f, ret |-> "NotHandled"]

Focus_handle_backspace(f) ==
    IF Focus_is_notes_picker(f)
    THEN [focus |-> Focus_update_notes_filter(
                        [f EXCEPT !.input = TextInput_backspace(f.input)]),
          ret |-> "Handled"]
    ELSE [focus |-> f, ret |-> "NotHandled"]

Focus_move_up(f) ==
    IF Focus_is_notes_picker(f)
    THEN [focus |-> [f EXCEPT !.list = ListWidget_select_up(f.list).list],
          ret |-> "Handled"]
    ELSE [focus |-> f, ret |-> "NotHandled"]

Focus_move_down(f) ==
    IF Focus_is_notes_picker(f)
    THEN [focus |-> [f EXCEPT !.list = ListWidget_select_down(f.list).list],
          ret |-> "Handled"]
    ELSE [focus |-> f, ret |-> "NotHandled"]

\* InputResult::was_handled
was_handled(result) == result /= "NotHandled"

\* From<InputResult> for AppResult
IntoAppResult(a, result) == IF result = "Handled" THEN Redraw(a) ELSE Ok(a)

\* ------------------------------------------- app/notes_picker.rs, action.rs
\* The path save_note gives a note made of an untitled tab: its name,
\* note_<seconds>.md, sorts after the notes there are.
NewNotePath(a) == Max(Paths \cup a.disk) + 1

\* auto_save of the active tab: a tab with a path is written to it, and an
\* untitled one becomes a new note of the data directory.
App_auto_save(a) ==
    IF a.tabs[a.active_tab + 1].path /= None THEN a
    ELSE [a EXCEPT !.tabs[a.active_tab + 1].path = Some(NewNotePath(a)),
                   !.disk = a.disk \cup {NewNotePath(a)}]

\* open_notes_picker while the data directory holds the notes of Paths.
App_open_notes_picker(a) ==
    LET open_paths == {a.tabs[i].path : i \in 1..Len(a.tabs)}
        notes == [i \in 1..Len(list_notes) |->
                     [path |-> list_notes[i],
                      title |-> NoteTitle(list_notes[i]),
                      is_open |-> Some(list_notes[i]) \in open_paths]] IN
    IF notes = <<>> THEN Ok(a)
    ELSE Redraw([a EXCEPT !.focus = Focus_start_notes_picker(notes)])

App_open_note_by_path(a, path) ==
    LET open == {i \in 0..(Len(a.tabs) - 1) : a.tabs[i + 1].path = Some(path)}
        tab == Tab_from_file(path, a.disk) IN
    IF open /= {}
    THEN Redraw(App_auto_scroll(
             [a EXCEPT !.active_tab = CHOOSE i \in open : \A j \in open : i <= j]))
    ELSE IF tab /= None
    THEN Redraw(App_auto_scroll(
             [a EXCEPT !.tabs = Append(a.tabs, tab[1]),
                       !.active_tab = Len(a.tabs)]))
    ELSE Ok(a)

App_confirm_notes_picker(a) ==
    LET c == Focus_confirm_notes_picker(a.focus)
        a1 == [a EXCEPT !.focus = c.focus] IN
    IF c.ret /= None THEN App_open_note_by_path(a1, c.ret[1]) ELSE Ok(a1)

App_cancel_notes_picker(a) ==
    LET c == Focus_cancel_notes_picker(a.focus) IN
    IF c.ret THEN Redraw([a EXCEPT !.focus = c.focus]) ELSE Ok(a)

\* The active tab's buffer becomes b; a panic of the buffer ends the process.
WithBuffer(a, b) ==
    IF b.panicked THEN AppPanic(a)
    ELSE [a EXCEPT !.tabs[a.active_tab + 1].buffer = b]

ActiveBuffer(a) == a.tabs[a.active_tab + 1].buffer

\* `self.tabs[self.active_tab]` names a tab, and cursor_col() does not panic.
ActiveTabReads(a) ==
    /\ a.active_tab < Len(a.tabs)
    /\ ~char_to_line_col_panics(ActiveBuffer(a), ActiveBuffer(a).cursor)

\* auto_save and auto_scroll, where the edit did not panic.
Saved(a) == IF a.panicked THEN a ELSE Redraw(App_auto_scroll(App_auto_save(a)))

App_handle_char(a, ch) ==
    LET result == Focus_handle_char(a.focus, ch) IN
    IF was_handled(result.ret)
    THEN IntoAppResult([a EXCEPT !.focus = result.focus], result.ret)
    ELSE IF ~ActiveTabReads(a) THEN AppPanic(a)
    ELSE Saved(WithBuffer(a, insert(ActiveBuffer(a), ch)))

App_handle_backspace(a) ==
    LET result == Focus_handle_backspace(a.focus) IN
    IF was_handled(result.ret)
    THEN IntoAppResult([a EXCEPT !.focus = result.focus], result.ret)
    ELSE IF a.active_tab >= Len(a.tabs) THEN AppPanic(a)
    ELSE Saved(WithBuffer(a, backspace(ActiveBuffer(a))))

\* The scroll of the active tab follows its cursor.
Scrolled(a) == IF a.panicked THEN a ELSE Redraw(App_auto_scroll(a))

App_move_cursor_up(a, selecting) ==
    LET result == Focus_move_up(a.focus) IN
    IF was_handled(result.ret)
    THEN IntoAppResult([a EXCEPT !.focus = result.focus], result.ret)
    ELSE IF a.active_tab >= Len(a.tabs) THEN AppPanic(a)
    ELSE Scrolled(WithBuffer(a, move_up(ActiveBuffer(a), selecting)))

App_move_cursor_down(a, selecting) ==
    LET result == Focus_move_down(a.focus) IN
    IF was_handled(result.ret)
    THEN IntoAppResult([a EXCEPT !.focus = result.focus], result.ret)
    ELSE IF a.active_tab >= Len(a.tabs) THEN AppPanic(a)
    ELSE Scrolled(WithBuffer(a, move_down(ActiveBuffer(a), selecting)))

\* execute(Action::Confirm): the notes picker, then the rename, then a newline.
App_execute_Confirm(a) ==
    LET picked == App_confirm_notes_picker(a)
        renamed == App_confirm_rename(picked) IN
    IF picked.panicked \/ picked.ret = "Redraw" THEN picked
    ELSE IF renamed.ret = "Redraw" THEN renamed
    ELSE App_handle_char(renamed, NL)

\* execute(Action::Cancel)
App_execute_Cancel(a) ==
    LET cancelled == App_cancel_notes_picker(a) IN
    IF cancelled.ret = "Redraw" THEN cancelled ELSE App_cancel_rename(cancelled)

\* ------------------------------------------------- the notes picker at work
\* The application starts without a saved session; the notes of files can be
\* read.
PickerInit ==
    \E files \in SUBSET Paths :
        AppStarts(App_new(None, files, Max(WindowLines)))

\* Every open document is at most MaxLen characters long.
ShortDocuments == \A i \in 1..Len(tabs) : Len(tabs[i].buffer.rope) <= MaxLen

OpenNotesPicker ==
    /\ Live /\ disk \subseteq Paths
    /\ AppCall("open_notes_picker", None, App_open_notes_picker(App))

\* A character typed into the search field.
PickerChar ==
    \E ch \in PickerChars :
        /\ Live /\ Focus_is_notes_picker(focus)
        /\ Len(focus.input.text) < MaxInputLen
        /\ AppCall("handle_char", ch, App_handle_char(App, ch))

PickerBackspace ==
    /\ Live /\ Focus_is_notes_picker(focus)
    /\ AppCall("handle_backspace", None, App_handle_backspace(App))

PickerUp ==
    /\ Live /\ Focus_is_notes_picker(focus)
    /\ AppCall("move_cursor_up", FALSE, App_move_cursor_up(App, FALSE))

PickerDown ==
    /\ Live /\ Focus_is_notes_picker(focus)
    /\ AppCall("move_cursor_down", FALSE, App_move_cursor_down(App, FALSE))

StartRename ==
    \E tab_index \in 0..(MaxTabs - 1) :
        /\ Live
        /\ AppCall("start_rename", tab_index, App_start_rename(App, tab_index))

Confirm ==
    /\ Live /\ ShortDocuments
    /\ AppCall("Confirm", None, App_execute_Confirm(App))

Cancel == Live /\ AppCall("Cancel", None, App_execute_Cancel(App))

PickerNext ==
    \/ OpenNotesPicker \/ PickerChar \/ PickerBackspace \/ PickerUp
    \/ PickerDown \/ StartRename \/ Confirm \/ Cancel

PickerSpec == PickerInit /\ [][PickerNext]_vars

\* C31: while the notes picker has focus, Confirm leaves the text of every
\* open tab as it is, whether a note is selected, the filtered list is empty
\* or the chosen note cannot be opened: it closes the picker and at most
\* switches to or opens a tab.
C31_ConfirmKeepsText ==
    (~panicked /\ Focus_is_notes_picker(focus)) =>
        LET a2 == App_execute_Confirm(App) IN
        ~a2.panicked =>
            /\ a2.focus = Editor
            /\ \A i \in 1..Len(tabs) :
                   a2.tabs[i].buffer.rope = tabs[i].buffer.rope


\* ----------------------------------------- app/input.rs: the editor handlers
\* What the notes picker answers a key it has no use for: Ignored, which
\* counts as handled and becomes AppResult::Ok.
Focus_ignores(f) == IF Focus_is_notes_picker(f) THEN "Ignored" ELSE "NotHandled"

App_handle_delete_word_left(a) ==
    IF was_handled(Focus_ignores(a.focus)) THEN Ok(a)
    ELSE IF a.active_tab >= Len(a.tabs) THEN AppPanic(a)
    ELSE Saved(WithBuffer(a, delete_word_left(ActiveBuffer(a))))

\* handle_delete: the tab is not saved.
App_handle_delete(a) ==
    IF was_handled(Focus_ignores(a.focus)) THEN Ok(a)
    ELSE IF a.active_tab >= Len(a.tabs) THEN AppPanic(a)
    ELSE Scrolled(WithBuffer(a, delete(ActiveBuffer(a))))

\* Tab::undo, redo, move_lines_up and move_lines_down all answer true.
App_handle_undo(a) ==
    IF was_handled(Focus_ignores(a.focus)) THEN Ok(a)
    ELSE IF a.active_tab >= Len(a.tabs) THEN AppPanic(a)
    ELSE Saved(WithBuffer(a, undo(ActiveBuffer(a))))

App_handle_redo(a) ==
    IF was_handled(Focus_ignores(a.focus)) THEN Ok(a)
    ELSE IF a.active_tab >= Len(a.tabs) THEN AppPanic(a)
    ELSE Saved(WithBuffer(a, redo(ActiveBuffer(a))))

App_handle_move_lines_up(a) ==
    IF a.focus /= Editor THEN Ok(a)
    ELSE IF a.active_tab >= Len(a.tabs) THEN AppPanic(a)
    ELSE Saved(WithBuffer(a, move_lines_up(ActiveBuffer(a))))

App_handle_move_lines_down(a) ==
    IF a.focus /= Editor THEN Ok(a)
    ELSE IF a.active_tab >= Len(a.tabs) THEN AppPanic(a)
    ELSE Saved(WithBuffer(a, move_lines_down(ActiveBuffer(a))))

\* auto_save and Redraw, where the edit did not panic.
SavedOnly(a) == IF a.panicked THEN a ELSE Redraw(App_auto_save(a))

\* handle_cut: Focus::cut is None for the editor and for the picker;
\* cut_selection is copy_selection and then delete_selection.
App_handle_cut(a) ==
    IF a.focus /= Editor THEN Ok(a)
    ELSE IF a.active_tab >= Len(a.tabs) THEN AppPanic(a)
    ELSE IF selected_text_panics(ActiveBuffer(a)) THEN AppPanic(a)
    ELSE IF selected_text(ActiveBuffer(a)) = <<>> THEN Ok(a)
    ELSE SavedOnly(WithBuffer(a, delete_selection(ActiveBuffer(a))))

\* handle_paste: clipboard is what get_text gives, None or Some(text).
App_handle_paste(a, clipboard) ==
    IF clipboard = None THEN Ok(a)
    ELSE IF was_handled(Focus_ignores(a.focus)) THEN Ok(a)
    ELSE IF a.active_tab >= Len(a.tabs) THEN AppPanic(a)
    ELSE LET text == clipboard[1] IN
         Saved(WithBuffer(a, IF text /= <<>>
                             THEN insert_str(ActiveBuffer(a), text)
                             ELSE ActiveBuffer(a)))

\* ------------------------------------------------------ the editor at work
\* What the clipboard holds.
Clipboards == {None, Some(<<>>), Some(<<NL>>), Some(<<"a", NL>>)}

\* The application starts without a saved session, in a window of one or two
\* lines.
EditorInit ==
    \E files \in SUBSET Paths, visible \in WindowLines :
        AppStarts(App_new(None, files, visible))

\* Recording edits are made while the budget of the active buffer lasts.
EditorMayRecord ==
    /\ Live
    /\ Len(ActiveBuffer(App).undo_stack) + Len(ActiveBuffer(App).redo_stack)
           < MaxActions

HandleChar ==
    \E ch \in Alphabet :
        /\ EditorMayRecord /\ Len(ActiveBuffer(App).rope) < MaxLen
        /\ AppCall("handle_char", ch, App_handle_char(App, ch))

HandleBackspace ==
    EditorMayRecord /\ AppCall("handle_backspace", None, App_handle_backspace(App))

HandleDeleteWordLeft ==
    /\ EditorMayRecord
    /\ AppCall("handle_delete_word_left", None, App_handle_delete_word_left(App))

HandleDelete ==
    EditorMayRecord /\ AppCall("handle_delete", None, App_handle_delete(App))

HandlePaste ==
    \E clipboard \in Clipboards :
        /\ EditorMayRecord
        /\ clipboard /= None =>
               Len(ActiveBuffer(App).rope) + Len(clipboard[1]) <= MaxLen
        /\ AppCall("handle_paste", clipboard, App_handle_paste(App, clipboard))

HandleCut == EditorMayRecord /\ AppCall("handle_cut", None, App_handle_cut(App))

HandleUndo == Live /\ AppCall("handle_undo", None, App_handle_undo(App))

HandleRedo == Live /\ AppCall("handle_redo", None, App_handle_redo(App))

\* The line moves record nothing; they are made on a text of at most MaxLen
\* characters.
HandleMoveLinesUp ==
    /\ Live /\ Len(ActiveBuffer(App).rope) <= MaxLen
    /\ AppCall("handle_move_lines_up", None, App_handle_move_lines_up(App))

HandleMoveLinesDown ==
    /\ Live /\ Len(ActiveBuffer(App).rope) <= MaxLen
    /\ AppCall("handle_move_lines_down", None, App_handle_move_lines_down(App))

MoveCursorUp ==
    \E selecting \in BOOLEAN :
        /\ Live
        /\ AppCall("move_cursor_up", selecting, App_move_cursor_up(App, selecting))

MoveCursorDown ==
    \E selecting \in BOOLEAN :
        /\ Live
        /\ AppCall("move_cursor_down", selecting,
                   App_move_cursor_down(App, selecting))

EditorNext ==
    \/ HandleChar \/ HandleBackspace \/ HandleDeleteWordLeft \/ HandleDelete
    \/ HandlePaste \/ HandleCut \/ HandleUndo \/ HandleRedo
    \/ HandleMoveLinesUp \/ HandleMoveLinesDown
    \/ MoveCursorUp \/ MoveCursorDown

EditorSpec == EditorInit /\ [][EditorNext]_vars

\* The handlers that change the text of the active document.
TextHandlers ==
    {"handle_char", "handle_backspace", "handle_delete",
     "handle_delete_word_left", "handle_paste", "handle_cut", "handle_undo",
     "handle_redo", "handle_move_lines_up", "handle_move_lines_down"}

\* C32: after a handler of editor focus that changes the text of the active
\* document (character, backspace, delete, delete word left, paste, cut,
\* undo, redo, move lines up or down) cursor_line() of the active tab is one of
\* the visible_lines lines shown from scroll_offset on.
C32_CursorLineVisible ==
    (/\ returned /= None
     /\ returned.op \in TextHandlers
     /\ returned.value = "Redraw"
     /\ focus = Editor) =>
        LET tab == tabs[active_tab + 1] IN
        /\ tab.scroll_offset <= Tab_cursor_line(tab)
        /\ Tab_cursor_line(tab) < tab.scroll_offset + visible_lines

====
